---------------------------- MODULE Spec2Model ----------------------------
(***************************************************************************)
(* A model of the recommendation pipeline of movie-mood-matcher:           *)
(*   backend/app/services/enhanced_recommendation_service.py               *)
(*   backend/app/services/tmdb_client.py                                   *)
(*   backend/app/api/routes/recommendation.py                              *)
(*                                                                         *)
(* Text is modelled character by character on TLA+ strings (Len, SubSeq    *)
(* and \o work on strings in TLC).  A Python dict is a function whose      *)
(* DOMAIN is the set of keys that are present, so d.get(k, default) is     *)
(* Get(d, k, default).                                                     *)
(*                                                                         *)
(* Numbers that are floats in the code are fixed-point integers here:      *)
(*   vote_average and the vote_average filters are in tenths (7.5 is 75),  *)
(*   a relevance score s is the integer s * ScoreUnit.                     *)
(***************************************************************************)
EXTENDS Integers, Sequences, FiniteSets, TLC

VARIABLES
    pc,               \* position of the request in get_recommendations
    mood_query,       \* MoodQuery of a mood request (None for a plain request)
    query,            \* RecommendationQuery.query
    media_type,       \* RecommendationQuery.media_type
    page,             \* RecommendationQuery.page
    limit,            \* RecommendationQuery.limit
    user_filters,     \* RecommendationQuery.filters (None or a dict)
    clock_year,       \* datetime.now().year, which _parse_query reads
    suspended,        \* the other request in flight, if there is one
    parsed_query,     \* the dict returned by _parse_query
    strategy,         \* the branch get_recommendations took after parsing
    filters,          \* the dict returned by _build_filters
    client_open,      \* TMDBClient.client is not yet closed
    calls,            \* the gateway requests issued so far, in order
    search_results,   \* _get_similar_content: response of search_multi
    similar,          \* _get_similar_content: response of get_similar_*
    recommended,      \* _get_similar_content: response of get_*_recommendations
    movies,           \* _fetch_content: response of discover_movies
    tv,               \* _fetch_content: response of discover_tv
    results,          \* the result set handed to _process_results
    recommendations,  \* the list returned by _process_results
    response,         \* what the endpoint answers
    streams,          \* the chat streams being generated, by stream
    db                \* the chat session as committed to the database

\* The request.
request == <<mood_query, query, media_type, page, limit, user_filters>>

\* The gateway client and the responses it has given.
gateway == <<client_open, calls, search_results, similar, recommended, movies, tv>>

\* What lies outside the running request.
outside == <<clock_year, suspended, streams, db>>

vars == <<pc, request, outside, parsed_query, strategy, filters, gateway,
          results, recommendations, response>>

\* No chat stream is being generated.
NoChat ==
    /\ streams = <<>>
    /\ db = <<>>

-----------------------------------------------------------------------------
(* Python values *)

\* Python's None, where the code stores None or a string / dict.
None == "<None>"

\* d.get(k, default) of a dict d.
Get(d, k, default) == IF k \in DOMAIN d THEN d[k] ELSE default

\* The empty dict {}.
EmptyDict == <<>>

Min(a, b) == IF a <= b THEN a ELSE b

Max(a, b) == IF a >= b THEN a ELSE b

\* The set of elements of a list.
Range(seq) == {seq[i] : i \in 1..Len(seq)}

\* lst[:n] of a list.
Take(seq, n) == SubSeq(seq, 1, Min(n, Len(seq)))

-----------------------------------------------------------------------------
(* Text *)

Char(s, i) == SubSeq(s, i, i)

UpperLetters == "ABCDEFGHIJKLMNOPQRSTUVWXYZ"

LowerLetters == "abcdefghijklmnopqrstuvwxyz"

\* str.lower() letter by letter.
LowerOf ==
    [c \in {Char(UpperLetters, k) : k \in 1..Len(UpperLetters)} |->
        Char(LowerLetters, CHOOSE k \in 1..Len(UpperLetters) : Char(UpperLetters, k) = c)]

\* str.lower() of one character.
LowerChar(c) == IF c \in DOMAIN LowerOf THEN LowerOf[c] ELSE c

\* The characters lo..hi of s in lower case, half by half.
RECURSIVE LowerBetween(_, _, _)
LowerBetween(s, lo, hi) ==
    IF lo > hi THEN ""
    ELSE IF lo = hi THEN LowerChar(Char(s, lo))
    ELSE LowerBetween(s, lo, (lo + hi) \div 2) \o LowerBetween(s, ((lo + hi) \div 2) + 1, hi)

\* str.lower()
Lower(s) == LowerBetween(s, 1, Len(s))

\* The Python test `sub in s` on strings.
Contains(sub, s) ==
    \E i \in 1..(Len(s) - Len(sub) + 1) : SubSeq(s, i, i + Len(sub) - 1) = sub

\* The characters the regex class \s and str.strip() treat as white space.
WhiteSpace == {" ", "\t", "\n", "\r", "\f"}

IsSpace(c) == c \in WhiteSpace

\* The first position at or after i that holds no white space (Len(s)+1 if none).
RECURSIVE SkipSpace(_, _)
SkipSpace(s, i) ==
    IF i <= Len(s) /\ IsSpace(Char(s, i)) THEN SkipSpace(s, i + 1) ELSE i

\* The last position at or before i that holds no white space (0 if none).
RECURSIVE SkipSpaceBack(_, _)
SkipSpaceBack(s, i) ==
    IF i >= 1 /\ IsSpace(Char(s, i)) THEN SkipSpaceBack(s, i - 1) ELSE i

\* str.strip()
Strip(s) == SubSeq(s, SkipSpace(s, 1), SkipSpaceBack(s, Len(s)))

DigitChars == "0123456789"

\* str(n) of a non-negative int.
RECURSIVE Str(_)
Str(n) ==
    IF n < 10 THEN Char(DigitChars, n + 1)
    ELSE Str(n \div 10) \o Char(DigitChars, (n % 10) + 1)

\* ",".join(map(str, ids))
RECURSIVE JoinComma(_)
JoinComma(ids) ==
    IF Len(ids) = 0 THEN ""
    ELSE IF Len(ids) = 1 THEN Str(ids[1])
    ELSE Str(ids[1]) \o "," \o JoinComma(Tail(ids))

\* list(set(xs)) of a list of ints.  CPython enumerates a set in an order that
\* is a fixed function of its contents and history and that the language does
\* not specify; the model fixes the ascending order, and states nothing that
\* depends on it.
RECURSIVE ListOfSet(_)
ListOfSet(S) ==
    IF S = {} THEN <<>>
    ELSE LET m == CHOOSE x \in S : \A y \in S : x <= y
         IN <<m>> \o ListOfSet(S \ {m})

-----------------------------------------------------------------------------
(* Static tables *)

\* GENRE_MAP in declaration order (a dict keeps insertion order).  A keyword
\* mapped to a single id has a one-element list here: _parse_query appends a
\* single id and extends by a list, which add the same ids.
GENRE_MAP == <<
    [keyword |-> "action",          ids |-> <<28>>],
    [keyword |-> "adventure",       ids |-> <<12>>],
    [keyword |-> "animation",       ids |-> <<16>>],
    [keyword |-> "comedy",          ids |-> <<35>>],
    [keyword |-> "crime",           ids |-> <<80>>],
    [keyword |-> "documentary",     ids |-> <<99>>],
    [keyword |-> "drama",           ids |-> <<18>>],
    [keyword |-> "family",          ids |-> <<10751>>],
    [keyword |-> "fantasy",         ids |-> <<14>>],
    [keyword |-> "history",         ids |-> <<36>>],
    [keyword |-> "horror",          ids |-> <<27>>],
    [keyword |-> "music",           ids |-> <<10402>>],
    [keyword |-> "mystery",         ids |-> <<9648>>],
    [keyword |-> "romance",         ids |-> <<10749>>],
    [keyword |-> "science fiction", ids |-> <<878>>],
    [keyword |-> "sci-fi",          ids |-> <<878>>],
    [keyword |-> "tv movie",        ids |-> <<10770>>],
    [keyword |-> "thriller",        ids |-> <<53>>],
    [keyword |-> "war",             ids |-> <<10752>>],
    [keyword |-> "western",         ids |-> <<37>>],
    [keyword |-> "space",           ids |-> <<878>>],
    [keyword |-> "alien",           ids |-> <<878>>],
    [keyword |-> "aliens",          ids |-> <<878>>],
    [keyword |-> "superhero",       ids |-> <<28, 14, 878>>],
    [keyword |-> "zombie",          ids |-> <<27, 28>>],
    [keyword |-> "vampire",         ids |-> <<27, 14>>] >>

\* MOOD_GENRE_MAP in declaration order.
MOOD_GENRE_MAP == <<
    [mood |-> "happy",       ids |-> <<35, 10749, 16>>],
    [mood |-> "feel-good",   ids |-> <<35, 10751, 10749>>],
    [mood |-> "sad",         ids |-> <<18, 10749>>],
    [mood |-> "excited",     ids |-> <<28, 12, 878>>],
    [mood |-> "scared",      ids |-> <<27, 53>>],
    [mood |-> "relaxed",     ids |-> <<35, 10751, 99>>],
    [mood |-> "romantic",    ids |-> <<10749, 18>>],
    [mood |-> "adventurous", ids |-> <<12, 28, 14>>],
    [mood |-> "thoughtful",  ids |-> <<18, 9648, 878>>],
    [mood |-> "nostalgic",   ids |-> <<10751, 16, 35>>],
    [mood |-> "angry",       ids |-> <<28, 80, 53>>] >>

-----------------------------------------------------------------------------
(* _parse_query: similarity patterns *)

\* The literal words of the three similarity_patterns, in list order.  In
\* each pattern the words are separated by \s+ and followed by
\*     \s+(.+?)(?:\s*$|\s*but)
\* The optional prefix (?:shows?|movies?|something)?\s* of the first and the
\* third pattern only moves the start of the match: it holds neither white
\* space inside a word nor a letter of "like" / "such as" that could belong
\* to an earlier occurrence, so group 1 is the one of the leftmost occurrence
\* of the words that has a capture, with or without the prefix.
similarity_patterns == << <<"like">>, <<"similar", "to">>, <<"such", "as">> >>

\* The words matched at position i, ignoring case (re.IGNORECASE): the
\* position after the last word, or 0 when they do not match there.
RECURSIVE MatchWordsAt(_, _, _)
MatchWordsAt(s, i, words) ==
    LET w == Head(words)
        j == i + Len(w)
    IN  IF j - 1 > Len(s) THEN 0
        ELSE IF Lower(SubSeq(s, i, j - 1)) # w THEN 0
        ELSE IF Len(words) = 1 THEN j
        ELSE LET k == SkipSpace(s, j)
             IN IF k = j THEN 0 ELSE MatchWordsAt(s, k, Tail(words))

\* (?:\s*$|\s*but) matches at position e: after the white space from e on,
\* the string ends or "but" follows (in any case).
TailMatches(s, e) ==
    LET k == SkipSpace(s, e)
    IN  \/ k = Len(s) + 1
        \/ k + 2 <= Len(s) /\ Lower(SubSeq(s, k, k + 2)) = "but"

\* "." matches every character but a line feed.
NoLineFeed(s, c, e) == \A i \in c..e : Char(s, i) # "\n"

\* The ends (last positions) of a capture that starts at c.
CaptureEnds(s, c) ==
    {e \in c..Len(s) : NoLineFeed(s, c, e) /\ TailMatches(s, e + 1)}

\* The starts of a capture after the words that end before j: \s+ takes at
\* least one white space character and gives back the rest on backtracking.
CaptureStarts(s, j) ==
    {c \in (j + 1)..Min(SkipSpace(s, j), Len(s)) : CaptureEnds(s, c) # {}}

\* Group 1 for the words matched up to j: \s+ is greedy (the last start),
\* (.+?) is lazy (the first end).
Capture(s, j) ==
    LET c == CHOOSE x \in CaptureStarts(s, j) : \A y \in CaptureStarts(s, j) : y <= x
        e == CHOOSE x \in CaptureEnds(s, c) : \A y \in CaptureEnds(s, c) : x <= y
    IN  SubSeq(s, c, e)

\* The positions where re.search can match the pattern with these words.
MatchPositions(s, words) ==
    {i \in 1..Len(s) :
        LET j == MatchWordsAt(s, i, words)
        IN  j # 0 /\ CaptureStarts(s, j) # {}}

\* re.search(pattern, query, re.IGNORECASE): <<group 1>> of the leftmost
\* match, or <<>> for no match.
SearchPattern(s, words) ==
    LET P == MatchPositions(s, words)
    IN  IF P = {} THEN <<>>
        ELSE LET i == CHOOSE x \in P : \A y \in P : x <= y
             IN  <<Capture(s, MatchWordsAt(s, i, words))>>

\* A slip: the loop without its break, so that the last pattern that matches
\* sets the target.
LastSimilarityMatch(s, patterns) ==
    LET M == {k \in 1..Len(patterns) : SearchPattern(s, patterns[k]) # <<>>}
    IN  IF M = {} THEN <<>>
        ELSE LET k == CHOOSE x \in M : \A y \in M : y <= x
             IN  <<Strip(SearchPattern(s, patterns[k])[1])>>

\* The loop over similarity_patterns with its break: the stripped group 1 of
\* the first pattern that matches, as the list specific_mentions.
RECURSIVE FirstSimilarityMatch(_, _)
FirstSimilarityMatch(s, patterns) ==
    IF Len(patterns) = 0 THEN <<>>
    ELSE LET m == SearchPattern(s, Head(patterns))
         IN  IF Len(m) > 0 THEN <<Strip(m[1])>>
             ELSE FirstSimilarityMatch(s, Tail(patterns))

-----------------------------------------------------------------------------
(* _parse_query *)

\* The concatenation of the id lists of a list of table entries.
RECURSIVE ConcatIds(_)
ConcatIds(entries) ==
    IF Len(entries) = 0 THEN <<>> ELSE Head(entries).ids \o ConcatIds(Tail(entries))

RECURSIVE KeywordsOf(_)
KeywordsOf(entries) ==
    IF Len(entries) = 0 THEN <<>> ELSE <<Head(entries).keyword>> \o KeywordsOf(Tail(entries))

\* "Extract genres and keywords": every GENRE_MAP entry whose keyword occurs
\* in the lowercased query, in table order.
ExtractGenres(query_lower) ==
    LET Occurs(entry) == Contains(entry.keyword, query_lower)
    IN  SelectSeq(GENRE_MAP, Occurs)

\* A slip of the mood loop: no break, so the last matching mood is recorded
\* and every matching mood adds its ids.
ExtractMoodNoBreak(query_lower) ==
    LET Occurs(entry) == Contains(entry.mood, query_lower)
        hits == SelectSeq(MOOD_GENRE_MAP, Occurs)
    IN  IF Len(hits) = 0 THEN [mood |-> None, ids |-> <<>>]
        ELSE [mood |-> hits[Len(hits)].mood, ids |-> ConcatIds(hits)]

\* "Extract mood": the first MOOD_GENRE_MAP entry, in table order, whose key
\* occurs in the lowercased query (the loop breaks there), or None.
ExtractMood(query_lower) ==
    LET Occurs(entry) == Contains(entry.mood, query_lower)
        hits == SelectSeq(MOOD_GENRE_MAP, Occurs)
    IN  IF Len(hits) = 0 THEN [mood |-> None, ids |-> <<>>]
        ELSE [mood |-> hits[1].mood, ids |-> hits[1].ids]

\* A slip of the deduplication: the genres are left as accumulated.
DedupGenresSkipped(ids) == ids

\* "Remove duplicates from genres": list(set(genres)).
DedupGenres(ids) == ListOfSet(Range(ids))

\* A slip: the three tests chained with elif, so that only the first rule
\* that applies sets its filters.
ExtractPreferencesFirstOnly(query_lower, current_year) ==
    LET rated  == Contains("highly rated", query_lower) \/ Contains("best", query_lower)
        recent == \E word \in {"new", "recent", "latest"} : Contains(word, query_lower)
        old    == Contains("classic", query_lower) \/ Contains("old", query_lower)
        keys   == IF rated THEN {"vote_average_gte", "vote_count_gte"}
                  ELSE IF recent THEN {"primary_release_date_gte"}
                  ELSE IF old THEN {"primary_release_date_lte"}
                  ELSE {}
    IN  [k \in keys |->
            CASE k = "vote_average_gte" -> 75
              [] k = "vote_count_gte" -> 100
              [] k = "primary_release_date_gte" -> Str(current_year - 2) \o "-01-01"
              [] k = "primary_release_date_lte" -> "2000-01-01"]

\* "Extract other preferences": the filters dict of the parsed query.
ExtractPreferences(query_lower, current_year) ==
    LET rated  == Contains("highly rated", query_lower) \/ Contains("best", query_lower)
        recent == \E word \in {"new", "recent", "latest"} : Contains(word, query_lower)
        old    == Contains("classic", query_lower) \/ Contains("old", query_lower)
        keys   == (IF rated THEN {"vote_average_gte", "vote_count_gte"} ELSE {})
                  \cup (IF recent THEN {"primary_release_date_gte"} ELSE {})
                  \cup (IF old THEN {"primary_release_date_lte"} ELSE {})
    IN  [k \in keys |->
            CASE k = "vote_average_gte" -> 75
              [] k = "vote_count_gte" -> 100
              [] k = "primary_release_date_gte" -> Str(current_year - 2) \o "-01-01"
              [] k = "primary_release_date_lte" -> "2000-01-01"]

\* _parse_query(query), with the year that datetime.now() gives.
parse_query(q, current_year) ==
    LET query_lower == Lower(q)
        mentions    == FirstSimilarityMatch(q, similarity_patterns)
        matched     == ExtractGenres(query_lower)
        mood        == ExtractMood(query_lower)
    IN  [original            |-> q,
         genres              |-> DedupGenres(ConcatIds(matched) \o mood.ids),
         keywords            |-> KeywordsOf(matched),
         mood                |-> mood.mood,
         is_similarity_query |-> Len(mentions) > 0,
         specific_mentions   |-> mentions,
         filters             |-> ExtractPreferences(query_lower, current_year)]

-----------------------------------------------------------------------------
(* _build_filters *)

\* An Optional[...] value is a set of at most one element: None is {}.
NoValue == {}

Some(v) == {v}

TheValue(o) == CHOOSE v \in o : TRUE

\* d[k] = v on a copy of the dict d.
DictSet(d, k, v) == [x \in DOMAIN d \cup {k} |-> IF x = k THEN v ELSE d[x]]

\* A slip of the merge: a key the builder derived keeps the derived value.
DictUpdateKeepOld(d, u) ==
    [k \in DOMAIN d \cup DOMAIN u |-> IF k \in DOMAIN d THEN d[k] ELSE u[k]]

\* d.update(u) on a copy of the dict d.
DictUpdate(d, u) ==
    [k \in DOMAIN d \cup DOMAIN u |-> IF k \in DOMAIN u THEN u[k] ELSE d[k]]

\* A slip of the builder: with_genres is set also for an empty genre list.
build_filters_always_genres(parsed, user) ==
    LET derived == DictSet(parsed.filters, "with_genres", JoinComma(parsed.genres))
    IN  IF user # NoValue /\ DOMAIN TheValue(user) # {}
        THEN DictUpdate(derived, TheValue(user))
        ELSE derived

\* _build_filters(parsed_query, user_filters)
build_filters(parsed, user) ==
    LET copy    == parsed.filters
        derived == IF Len(parsed.genres) > 0
                   THEN DictSet(copy, "with_genres", JoinComma(parsed.genres))
                   ELSE copy
    IN  IF user # NoValue /\ DOMAIN TheValue(user) # {}
        THEN DictUpdate(derived, TheValue(user))
        ELSE derived

-----------------------------------------------------------------------------
(* The query parser and the filter builder applied to bounded inputs *)

\* The longest query, in words of ParseWords.
MaxWords == 2

\* The most keys of a caller's filters dict.
MaxUserKeys == 2

ParseWords ==
    {"action", "thriller", "drama", "superhero", "aliens", "Happy", "sad",
     "like", "similar to", "such as", "Heat", "but", "best", "old", "newest"}

ExampleQueries ==
    {"action thriller action",
     "shows like Breaking Bad",
     "I want something funny and action-packed",
     "something like Heat but old",
     "Movies such as Alien but new and highly rated",
     "I'm feeling happy and tired, something short",
     "similar to Alien like Heat but old",
     "movies like  ",
     "underrated short comedy from 1999",
     "popular all"}

RECURSIVE JoinSpace(_)
JoinSpace(words) ==
    IF Len(words) = 1 THEN words[1] ELSE words[1] \o " " \o JoinSpace(Tail(words))

ParseQueries ==
    {JoinSpace(ws) : ws \in UNION {[1..n -> ParseWords] : n \in 1..MaxWords}}
        \cup ExampleQueries

\* The years datetime.now() may give.
ClockYears == {2025, 2026}

\* The value a caller gives for a filter key: one that differs from the value
\* the builder derives for that key.
UserFilterValue ==
    [with_genres              |-> "99",
     vote_average_gte         |-> 60,
     primary_release_date_lte |-> "1990-12-31",
     sort_by                  |-> "vote_average.desc",
     page                     |-> 7]

\* RecommendationQuery.filters: None, or a dict with at most MaxUserKeys of
\* the keys.
UserFilterOptions(keys) ==
    {NoValue} \cup
    {Some([k \in ks |-> UserFilterValue[k]]) :
        ks \in {ks \in SUBSET keys : Cardinality(ks) <= MaxUserKeys}}

\* The gateway client of a request that has issued no call yet.
NoCalls ==
    /\ client_open = TRUE
    /\ calls = <<>>
    /\ search_results = EmptyDict
    /\ similar = EmptyDict
    /\ recommended = EmptyDict
    /\ movies = EmptyDict
    /\ tv = EmptyDict

\* The state of a request that has not been handled yet.
Fresh ==
    /\ pc = "start"
    /\ mood_query = NoValue
    /\ suspended = NoValue
    /\ parsed_query = EmptyDict
    /\ strategy = "none"
    /\ filters = EmptyDict
    /\ NoCalls
    /\ results = EmptyDict
    /\ recommendations = <<>>
    /\ response = EmptyDict

InitParse ==
    /\ Fresh
    /\ clock_year \in ClockYears
    /\ NoChat
    /\ query \in ParseQueries
    /\ media_type = "all"
    /\ page = 1
    /\ limit = 20
    /\ user_filters = NoValue

\* parsed_query = self._parse_query(query.query)
ParseQuery ==
    /\ pc = "start"
    /\ parsed_query' = parse_query(query, clock_year)
    /\ pc' = "parsed"
    /\ UNCHANGED <<request, outside, strategy, filters, gateway, results, recommendations,
                   response>>

\* filters = self._build_filters(parsed_query, query.filters), for any caller
\* filters.
ApplyBuildFilters ==
    /\ pc = "parsed"
    /\ \E uf \in UserFilterOptions({"with_genres", "vote_average_gte",
                                   "primary_release_date_lte", "sort_by"}) :
          /\ user_filters' = uf
          /\ filters' = build_filters(parsed_query, uf)
    /\ pc' = "built"
    /\ UNCHANGED <<mood_query, query, media_type, page, limit, outside,
                   parsed_query, strategy, gateway, results, recommendations,
                   response>>

NextParse == ParseQuery \/ ApplyBuildFilters

SpecParse == InitParse /\ [][NextParse]_vars

-----------------------------------------------------------------------------
(* Properties of the query parser and the filter builder (SpecParse) *)

\* The positions of the MOOD_GENRE_MAP keys that occur in a lowercased query.
MoodHits(ql) == {i \in 1..Len(MOOD_GENRE_MAP) : Contains(MOOD_GENRE_MAP[i].mood, ql)}

\* The ids of the first mood key that occurs, if any.
FirstMoodIds(ql) ==
    LET hits == MoodHits(ql)
    IN  IF hits = {} THEN {}
        ELSE Range(MOOD_GENRE_MAP[CHOOSE i \in hits : \A j \in hits : i <= j].ids)

\* The positions of the GENRE_MAP keywords that occur in a lowercased query.
KeywordHits(ql) == {i \in 1..Len(GENRE_MAP) : Contains(GENRE_MAP[i].keyword, ql)}

KeywordIds(ql) == UNION {Range(GENRE_MAP[i].ids) : i \in KeywordHits(ql)}

\* C5: the recorded mood is the first MOOD_GENRE_MAP key, in declaration
\* order, that occurs in the lowercased query, or None when no key occurs;
\* every genre id of the parsed query comes from a matching keyword or from
\* that one mood, never from a later mood that also occurs.
C5_FirstMoodWins ==
    pc = "parsed" =>
        LET ql   == Lower(query)
            hits == MoodHits(ql)
        IN  /\ hits = {} => parsed_query.mood = None
            /\ hits # {} =>
                  \E i \in hits :
                      /\ \A j \in hits : i <= j
                      /\ parsed_query.mood = MOOD_GENRE_MAP[i].mood
                      /\ Range(MOOD_GENRE_MAP[i].ids) \subseteq Range(parsed_query.genres)
            /\ Range(parsed_query.genres) \subseteq KeywordIds(ql) \cup FirstMoodIds(ql)

\* C5 witness: "happy" and "sad" both occur, with "sad" first in the text; the
\* mood is "happy" and id 18, which only "sad" maps to, is not a genre.
C5_Witness ==
    /\ pc = "parsed"
    /\ query = "sad Happy"
    /\ parsed_query.mood = "happy"
    /\ 18 \notin Range(parsed_query.genres)
    /\ 16 \in Range(parsed_query.genres)

\* C6: the genres list has no id twice and is, as a set, the ids of every
\* GENRE_MAP keyword that occurs in the lowercased query together with the
\* ids of the first matching mood; the keywords list holds every matching
\* keyword exactly once.
C6_GenresDeduplicated ==
    pc = "parsed" =>
        LET ql   == Lower(query)
            hits == KeywordHits(ql)
        IN  /\ \A i, j \in 1..Len(parsed_query.genres) :
                  i # j => parsed_query.genres[i] # parsed_query.genres[j]
            /\ Range(parsed_query.genres) = KeywordIds(ql) \cup FirstMoodIds(ql)
            /\ Range(parsed_query.keywords) = {GENRE_MAP[i].keyword : i \in hits}
            /\ Len(parsed_query.keywords) = Cardinality(hits)

\* C6 witness: "action thriller action" gives the genre set {28, 53}, each once.
C6_Witness ==
    /\ pc = "parsed"
    /\ query = "action thriller action"
    /\ Range(parsed_query.genres) = {28, 53}
    /\ Len(parsed_query.genres) = 2
    /\ parsed_query.keywords = <<"action", "thriller">>

\* The caller's filters as a dict (None counts as no key).
CallerFilters == IF user_filters = NoValue THEN EmptyDict ELSE TheValue(user_filters)

\* The keys the builder derives from the parsed query.
DerivedKeys ==
    DOMAIN parsed_query.filters
        \cup (IF Len(parsed_query.genres) > 0 THEN {"with_genres"} ELSE {})

\* C7: the FilterSet has the derived keys and the caller's keys; a key of the
\* caller has the caller's value, every other key the derived value.
C7_CallerOverrides ==
    pc = "built" =>
        /\ DOMAIN filters = DerivedKeys \cup DOMAIN CallerFilters
        /\ \A k \in DOMAIN filters :
              IF k \in DOMAIN CallerFilters THEN filters[k] = CallerFilters[k]
              ELSE IF k \in DOMAIN parsed_query.filters
                   THEN filters[k] = parsed_query.filters[k]
                   ELSE filters[k] = JoinComma(parsed_query.genres)

\* C7 witness: the caller overrides with_genres and vote_average_gte, both of
\* which the parsed query derives with another value.
C7_Witness ==
    /\ pc = "built"
    /\ "with_genres" \in DerivedKeys /\ "vote_average_gte" \in DerivedKeys
    /\ DOMAIN CallerFilters = {"with_genres", "vote_average_gte"}
    /\ parsed_query.filters["vote_average_gte"] = 75
    /\ filters["vote_average_gte"] = 60
    /\ filters["with_genres"] = "99"
    /\ filters["vote_count_gte"] = 100

-----------------------------------------------------------------------------
(* _calculate_relevance *)

\* The integer that stands for the relevance score 1.0: a multiple of 100 and
\* such that 0.3 * ScoreUnit / n is whole for every n up to 12, so that every
\* score the model computes is exact.
ScoreUnit == 2772000

\* A float literal with two decimals, in score units.
Hundredths(n) == (ScoreUnit \div 100) * n

\* A slip: the two similarity scores exchanged.
SimilarityScoreSwapped(it) ==
    IF Get(it, "similarity_type", None) = "similar" THEN Hundredths(80)
    ELSE IF Get(it, "similarity_type", None) = "recommended" THEN Hundredths(90)
    ELSE Hundredths(50)

\* The score of a similarity query before the rating factor.
SimilarityScore(it) ==
    IF Get(it, "similarity_type", None) = "similar" THEN Hundredths(90)
    ELSE IF Get(it, "similarity_type", None) = "recommended" THEN Hundredths(80)
    ELSE Hundredths(50)

\* [g["id"] for g in item.get("genres", [])]
RECURSIVE GenreIdsOf(_)
GenreIdsOf(genres) ==
    IF Len(genres) = 0 THEN <<>> ELSE <<Head(genres).id>> \o GenreIdsOf(Tail(genres))

\* A slip: genre_ids is taken whenever it is present.
ItemGenresFlatFirst(it) ==
    IF "genre_ids" \in DOMAIN it THEN it["genre_ids"]
    ELSE GenreIdsOf(Get(it, "genres", <<>>))

\* item_genres: the ids of the structured genres list, or genre_ids when that
\* list is empty or absent and genre_ids is present.
ItemGenres(it) ==
    LET item_genres == GenreIdsOf(Get(it, "genres", <<>>))
    IN  IF Len(item_genres) = 0 /\ "genre_ids" \in DOMAIN it
        THEN it["genre_ids"] ELSE item_genres

\* The score of a genre / mood query before the rating factor ("Genre match").
GenreScore(it, parsed) ==
    IF Len(parsed.genres) > 0
    THEN LET genre_overlap ==
                 Cardinality(Range(parsed.genres) \cap Range(ItemGenres(it)))
         IN  IF genre_overlap > 0
             THEN Hundredths(50)
                      + (Hundredths(30) * genre_overlap) \div Len(parsed.genres)
             ELSE Hundredths(50)
    ELSE Hundredths(50)

\* "Rating factor": what the rating adds to the score.
RatingBonus(it) ==
    LET vote_average == Get(it, "vote_average", 0)
        vote_count   == Get(it, "vote_count", 0)
    IN  IF vote_average >= 80 /\ vote_count >= 100 THEN Hundredths(20)
        ELSE IF vote_average >= 70 /\ vote_count >= 50 THEN Hundredths(10)
        ELSE IF vote_average >= 60 THEN Hundredths(5)
        ELSE 0

\* A slip: the score is returned as it is.
ClampSkipped(score) == score

\* return min(score, 1.0)
Clamp(score) == Min(score, ScoreUnit)

\* _calculate_relevance(item, parsed_query)
calculate_relevance(it, parsed) ==
    Clamp((IF parsed.is_similarity_query
           THEN SimilarityScore(it)
           ELSE GenreScore(it, parsed)) + RatingBonus(it))

-----------------------------------------------------------------------------
(* _process_results *)

\* The TVShow or Movie object built for an item (overview, the image paths,
\* popularity and the dates are copied as they are and are left out).
Content(it) ==
    IF Get(it, "media_type", None) = "tv" \/ "first_air_date" \in DOMAIN it
    THEN [id           |-> it["id"],
          title        |-> Get(it, "name", Get(it, "title", "")),
          media_type   |-> "tv",
          vote_average |-> Get(it, "vote_average", 0),
          vote_count   |-> Get(it, "vote_count", 0)]
    ELSE [id           |-> it["id"],
          title        |-> Get(it, "title", ""),
          media_type   |-> "movie",
          vote_average |-> Get(it, "vote_average", 0),
          vote_count   |-> Get(it, "vote_count", 0)]

\* A slip of the sort: of two elements of equal key the later one goes first.
DescendingRankTiesReversed(keys, i) ==
    Cardinality({j \in 1..Len(keys) : keys[j] > keys[i] \/ (keys[j] = keys[i] /\ j > i)}) + 1

\* The place that a stable sort in descending order gives to the element at
\* position i of a list with these keys: after every element of a higher key
\* and after the elements of the same key that stand before it.
DescendingRank(keys, i) ==
    Cardinality({j \in 1..Len(keys) : keys[j] > keys[i] \/ (keys[j] = keys[i] /\ j < i)}) + 1

\* sorted(items, key=..., reverse=True) and items.sort(key=..., reverse=True)
\* for a list with these keys: the sort is stable, also with reverse=True.
SortedDescending(items, keys) ==
    LET rank == [i \in 1..Len(items) |-> DescendingRank(keys, i)]
    IN  [p \in 1..Len(items) |-> items[CHOOSE i \in 1..Len(items) : rank[i] = p]]

\* recommendations.sort(key=lambda x: x.relevance_score, reverse=True)
SortByScore(recs) ==
    SortedDescending(recs, [i \in 1..Len(recs) |-> recs[i].relevance_score])

\* The recommendation built for one item (the explanation and the reasons,
\* which nothing else reads, are left out).
Recommendation(it, parsed) ==
    [content |-> Content(it), relevance_score |-> calculate_relevance(it, parsed)]

\* A slip: every item is scored and the best `limit` are kept.
process_results_top(res, parsed, lim) ==
    LET items == Get(res, "results", <<>>)
    IN  Take(SortByScore([i \in 1..Len(items) |-> Recommendation(items[i], parsed)]), lim)

\* _process_results(results, parsed_query, limit)
process_results(res, parsed, lim) ==
    LET items == Take(Get(res, "results", <<>>), lim)
    IN  SortByScore([i \in 1..Len(items) |-> Recommendation(items[i], parsed)])

-----------------------------------------------------------------------------
(* The ranker applied to bounded inputs *)

\* The most genre ids of a drawn parsed query.
MaxGenres == 2

\* The most items of a drawn result list.
MaxItems == 3

\* The largest drawn limit (RecommendationQuery.limit is 1..100).
MaxLimit == 3

\* A dict from a record of optional values: the keys whose value is not absent.
MakeDict(opt) == [k \in {x \in DOMAIN opt : opt[x] # NoValue} |-> TheValue(opt[k])]

\* The lists without repetition of at most n elements of S.
DistinctLists(S, n) ==
    {l \in UNION {[1..k -> S] : k \in 0..n} : \A i, j \in 1..Len(l) : i # j => l[i] # l[j]}

\* A parsed query of which the ranker reads is_similarity_query and genres.
ParsedOf(is_similarity, genres) ==
    [original            |-> "",
     genres              |-> genres,
     keywords            |-> <<>>,
     mood                |-> None,
     is_similarity_query |-> is_similarity,
     specific_mentions   |-> IF is_similarity THEN <<"Heat">> ELSE <<>>,
     filters             |-> EmptyDict]

\* The fields of a gateway item that _calculate_relevance reads, each absent
\* or with a value on either side of every threshold.
RelevanceItems ==
    {MakeDict([id |-> Some(1), similarity_type |-> st, genres |-> g,
               genre_ids |-> gi, vote_average |-> va, vote_count |-> vc]) :
        st \in {NoValue, Some("similar"), Some("recommended")},
        g  \in {NoValue, Some(<<>>), Some(<<[id |-> 28]>>), Some(<<[id |-> 28], [id |-> 53]>>)},
        gi \in {NoValue, Some(<<>>), Some(<<53>>), Some(<<28, 53, 99>>)},
        va \in {NoValue} \cup {Some(v) : v \in {59, 60, 69, 70, 79, 80}},
        vc \in {NoValue} \cup {Some(v) : v \in {49, 50, 99, 100}}}

\* One item, any parsed query: every input of _calculate_relevance.
InitRelevance ==
    /\ pc = "fetched"
    /\ mood_query = NoValue
    /\ suspended = NoValue
    /\ query = ""
    /\ media_type = "all"
    /\ page = 1
    /\ limit = 1
    /\ user_filters = NoValue
    /\ clock_year = 2026
    /\ NoChat
    /\ \E is_similarity \in BOOLEAN, genres \in DistinctLists({28, 53, 99}, MaxGenres) :
          parsed_query = ParsedOf(is_similarity, genres)
    /\ strategy = "none"
    /\ filters = EmptyDict
    /\ NoCalls
    /\ \E it \in RelevanceItems :
          results = [results |-> <<it>>, total_results |-> 1, total_pages |-> 1]
    /\ recommendations = <<>>
    /\ response = EmptyDict

\* The drawn items of a result list, without their id: untagged, "similar" or
\* "recommended", in each of the four tiers of the rating factor.
RankItems ==
    {MakeDict([similarity_type |-> k[1], genre_ids |-> k[2],
               vote_average |-> r[1], vote_count |-> r[2]]) :
        k \in {<<NoValue, NoValue>>, <<Some("similar"), Some(<<28>>)>>,
               <<Some("recommended"), Some(<<28, 53>>)>>},
        r \in {<<NoValue, NoValue>>, <<Some(65), Some(10)>>, <<Some(75), Some(60)>>,
               <<Some(85), Some(200)>>}}

\* The drawn result lists of n items: the item at fetch position i has id i.
RankLists(n) ==
    {[i \in 1..n |-> DictSet(l[i], "id", i)] : l \in [1..n -> RankItems]}

\* Any result list, any limit, a similarity query or a query for two genres.
InitRank ==
    /\ pc = "fetched"
    /\ mood_query = NoValue
    /\ suspended = NoValue
    /\ query = ""
    /\ media_type = "all"
    /\ page = 1
    /\ limit \in 1..MaxLimit
    /\ user_filters = NoValue
    /\ clock_year = 2026
    /\ NoChat
    /\ \E is_similarity \in BOOLEAN : parsed_query = ParsedOf(is_similarity, <<28, 53>>)
    /\ strategy = "none"
    /\ filters = EmptyDict
    /\ NoCalls
    /\ \E n \in 0..MaxItems : \E l \in RankLists(n) :
          results = [results |-> l, total_results |-> Len(l), total_pages |-> 1]
    /\ recommendations = <<>>
    /\ response = EmptyDict

\* recommendations = self._process_results(results, parsed_query, query.limit)
ApplyProcessResults ==
    /\ pc = "fetched"
    /\ recommendations' = process_results(results, parsed_query, limit)
    /\ pc' = "ranked"
    /\ UNCHANGED <<request, outside, parsed_query, strategy, filters, gateway,
                   results, response>>

NextRank == ApplyProcessResults

SpecRelevance == InitRelevance /\ [][NextRank]_vars

SpecRank == InitRank /\ [][NextRank]_vars

-----------------------------------------------------------------------------
(* Properties of the ranker (SpecRelevance, SpecRank) *)

\* The fetched items, in fetch order.
Fetched == Get(results, "results", <<>>)

\* The fetch position of the item with this id.
FetchPosition(id) == CHOOSE i \in 1..Len(Fetched) : Fetched[i]["id"] = id

\* The fetched item a recommendation was built from.
ItemOf(r) == Fetched[FetchPosition(r.content.id)]

\* C1: every relevance score lies in [0.5, 1] (so in [0, 1]), for every item
\* and every parsed query; with an empty requested genre set the score is
\* computed all the same (no division takes place) and is 0.5 plus the rating
\* factor.
C1_RelevanceInRange ==
    pc = "ranked" =>
        /\ Len(recommendations) = 1
        /\ \A i \in 1..Len(recommendations) :
              LET s == recommendations[i].relevance_score
              IN  /\ 0 <= s /\ Hundredths(50) <= s /\ s <= ScoreUnit
                  /\ (~parsed_query.is_similarity_query /\ Len(parsed_query.genres) = 0)
                        => s \in {Hundredths(50), Hundredths(55), Hundredths(60), Hundredths(70)}

\* C1 witness: a "similar" item with the highest rating factor, 0.9 + 0.2,
\* scores 1.0.
C1_Witness ==
    /\ pc = "ranked"
    /\ parsed_query.is_similarity_query
    /\ Get(Fetched[1], "similarity_type", None) = "similar"
    /\ Get(Fetched[1], "vote_average", 0) >= 80
    /\ Get(Fetched[1], "vote_count", 0) >= 100
    /\ recommendations[1].relevance_score = ScoreUnit

\* The similarity tag of the item of the i-th recommendation.
TagOf(i) == Get(ItemOf(recommendations[i]), "similarity_type", None)

\* The rating factor of the item of the i-th recommendation.
TierOf(i) == RatingBonus(ItemOf(recommendations[i]))

\* In a similarity query a "similar" item without rating factor scores 0.9 and
\* a "recommended" one 0.8.
SimilarityBaseScores ==
    \A i \in 1..Len(recommendations) :
        TierOf(i) = 0 =>
            /\ TagOf(i) = "similar" => recommendations[i].relevance_score = Hundredths(90)
            /\ TagOf(i) = "recommended" => recommendations[i].relevance_score = Hundredths(80)

\* C2 as claimed: in a similarity query a "similar" item without rating factor
\* scores 0.9 and a "recommended" one 0.8, and in every tier of the rating
\* factor (none, +0.05, +0.1, +0.2) a "similar" item scores strictly higher
\* than a "recommended" item of that tier and stands before it.
C2_SimilarOutranksInEveryTier ==
    (pc = "ranked" /\ parsed_query.is_similarity_query) =>
        /\ SimilarityBaseScores
        /\ \A i, j \in 1..Len(recommendations) :
              (TagOf(i) = "similar" /\ TagOf(j) = "recommended" /\ TierOf(i) = TierOf(j))
                 => /\ recommendations[i].relevance_score > recommendations[j].relevance_score
                    /\ i < j

\* C2 as amended: the same in the tiers none, +0.05 and +0.1; in the tier +0.2
\* both items score 1.0 (0.9 + 0.2 is clamped) and stand in fetch order.
C2_SimilarOutranksBelowClamp ==
    (pc = "ranked" /\ parsed_query.is_similarity_query) =>
        /\ SimilarityBaseScores
        /\ \A i, j \in 1..Len(recommendations) :
              (TagOf(i) = "similar" /\ TagOf(j) = "recommended" /\ TierOf(i) = TierOf(j))
                 => IF TierOf(i) < Hundredths(20)
                    THEN /\ recommendations[i].relevance_score > recommendations[j].relevance_score
                         /\ i < j
                    ELSE /\ recommendations[i].relevance_score = ScoreUnit
                         /\ recommendations[j].relevance_score = ScoreUnit
                         /\ (i < j) = (FetchPosition(recommendations[i].content.id)
                                          < FetchPosition(recommendations[j].content.id))

\* C2 witness: a "recommended" item fetched before a "similar" item of the
\* same tier +0.1 stands after it, with 0.9 against 1.0.
C2_Witness ==
    /\ pc = "ranked"
    /\ parsed_query.is_similarity_query
    /\ Len(recommendations) >= 2
    /\ TagOf(1) = "similar" /\ TierOf(1) = Hundredths(10)
    /\ TagOf(2) = "recommended" /\ TierOf(2) = Hundredths(10)
    /\ recommendations[1].relevance_score = ScoreUnit
    /\ recommendations[2].relevance_score = Hundredths(90)
    /\ FetchPosition(recommendations[2].content.id) < FetchPosition(recommendations[1].content.id)

\* C3: the list has min(limit, n) recommendations, one for each of the first
\* min(limit, n) fetched items and for no other item.
C3_TruncatedBeforeRanking ==
    pc = "ranked" =>
        LET n == Min(limit, Len(Fetched))
        IN  /\ Len(recommendations) = n
            /\ {recommendations[i].content.id : i \in 1..Len(recommendations)}
                  = {Fetched[i]["id"] : i \in 1..n}
            /\ \A i, j \in 1..Len(recommendations) :
                  i # j => recommendations[i].content.id # recommendations[j].content.id

\* C3 witness: an item fetched after the first `limit` items would score
\* higher than an item that is returned, and is not returned.
C3_Witness ==
    /\ pc = "ranked"
    /\ Len(Fetched) > limit
    /\ \E j \in (limit + 1)..Len(Fetched), i \in 1..Len(recommendations) :
          /\ calculate_relevance(Fetched[j], parsed_query) > recommendations[i].relevance_score
          /\ \A k \in 1..Len(recommendations) : recommendations[k].content.id # Fetched[j]["id"]

\* C4: the list is in non-increasing order of relevance score, and
\* recommendations of equal score are in fetch order.
C4_StableDescendingOrder ==
    pc = "ranked" =>
        \A i, j \in 1..Len(recommendations) :
            i < j =>
                /\ recommendations[i].relevance_score >= recommendations[j].relevance_score
                /\ recommendations[i].relevance_score = recommendations[j].relevance_score
                      => FetchPosition(recommendations[i].content.id)
                            < FetchPosition(recommendations[j].content.id)

\* C4 witness: three recommendations, the first two of equal score and in
\* fetch order, the third fetched before both.
C4_Witness ==
    /\ pc = "ranked"
    /\ Len(recommendations) = 3
    /\ recommendations[1].relevance_score = recommendations[2].relevance_score
    /\ recommendations[2].relevance_score > recommendations[3].relevance_score
    /\ FetchPosition(recommendations[3].content.id) = 1
    /\ FetchPosition(recommendations[1].content.id) = 2
    /\ FetchPosition(recommendations[2].content.id) = 3

-----------------------------------------------------------------------------
(* _get_similar_content *)

\* The items of a response: response.get("results", []).
ResultsOf(resp) == Get(resp, "results", <<>>)

\* A slip of the target loop: no break, so the last movie or show is taken.
FindTargetLast(found) ==
    LET hits == {i \in 1..Len(found) : Get(found[i], "media_type", None) \in {"movie", "tv"}}
    IN  IF hits = {} THEN NoValue
        ELSE Some(found[CHOOSE i \in hits : \A j \in hits : j <= i])

\* The first search result whose media_type is "movie" or "tv", if any.
FindTarget(found) ==
    LET hits == {i \in 1..Len(found) : Get(found[i], "media_type", None) \in {"movie", "tv"}}
    IN  IF hits = {} THEN NoValue
        ELSE Some(found[CHOOSE i \in hits : \A j \in hits : i <= j])

\* The target of a search response: none when the response has no results or
\* none of them is a movie or a show.
TargetOf(resp) == FindTarget(ResultsOf(resp))

\* The position in the dict all_results of the item stored under an id: 0
\* when there is none.  The dict is kept as the list of its values in
\* insertion order.
PositionOf(all_results, id) ==
    LET at == {i \in 1..Len(all_results) : all_results[i]["id"] = id}
    IN  IF at = {} THEN 0 ELSE CHOOSE i \in at : TRUE

\* The elements of a list at the positions in P, in list order.
AtPositions(items, P) ==
    [k \in 1..Cardinality(P) |->
        items[CHOOSE i \in P : Cardinality({j \in P : j <= i}) = k]]

\* The positions of a list of items at which an id stands for the first time.
FirstOfId(items) ==
    {i \in 1..Len(items) : \A j \in 1..(i - 1) : items[j]["id"] # items[i]["id"]}

\* The last item of a list with this id.
LastWithId(items, id) ==
    items[CHOOSE i \in 1..Len(items) :
              /\ items[i]["id"] = id
              /\ \A j \in (i + 1)..Len(items) : items[j]["id"] # id]

\* item["similarity_type"] = ...; item["media_type"] = content_type
Tagged(it, similarity_type, content_type) ==
    DictSet(DictSet(it, "similarity_type", similarity_type), "media_type", content_type)

\* The loop over similar.get("results", []) on the empty dict:
\* all_results[item["id"]] = item puts a new key last, and a key that is there
\* keeps its place and takes the new value.
AddSimilar(items, content_type) ==
    LET firsts == AtPositions(items, FirstOfId(items))
    IN  [k \in 1..Len(firsts) |->
            Tagged(LastWithId(items, firsts[k]["id"]), "similar", content_type)]

\* A slip: the loop over the recommendations without its test, so that a
\* recommended item replaces the similar item of the same id.
AddRecommendedOverwrite(all_results, items, content_type) ==
    LET new   == {i \in FirstOfId(items) : PositionOf(all_results, items[i]["id"]) = 0}
        added == AtPositions(items, new)
        ids   == {items[i]["id"] : i \in 1..Len(items)}
    IN  [k \in 1..Len(all_results) |->
            IF all_results[k]["id"] \in ids
            THEN Tagged(LastWithId(items, all_results[k]["id"]), "recommended", content_type)
            ELSE all_results[k]]
        \o [k \in 1..Len(added) |->
               Tagged(LastWithId(items, added[k]["id"]), "recommended", content_type)]

\* The loop over recommendations.get("results", []): an id that is in the
\* dict already (from the similar items or from this loop) is passed over.
AddRecommended(all_results, items, content_type) ==
    LET new   == {i \in FirstOfId(items) : PositionOf(all_results, items[i]["id"]) = 0}
        added == AtPositions(items, new)
    IN  all_results \o [k \in 1..Len(added) |-> Tagged(added[k], "recommended", content_type)]

\* A slip: the original item stays in the merged results.
RemoveOriginalSkipped(all_results, content_id) == all_results

\* if content_id in all_results: del all_results[content_id]
RemoveOriginal(all_results, content_id) ==
    LET at == PositionOf(all_results, content_id)
    IN  IF at = 0 THEN all_results
        ELSE SubSeq(all_results, 1, at - 1) \o SubSeq(all_results, at + 1, Len(all_results))

\* The square of the sort key vote_average * vote_count ** 0.5, with
\* vote_average in tenths.  Both factors of the key are non-negative, so the
\* keys are ordered as their squares are.
WeightedRatingSquared(it) ==
    LET vote_average == Get(it, "vote_average", 0)
        vote_count   == Get(it, "vote_count", 0)
    IN  vote_average * vote_average * vote_count

\* A slip: the merged results are left in insertion order.
SortedByWeightedRatingSkipped(items) == items

\* sorted(items, key=..., reverse=True): stable, also with reverse=True.
SortedByWeightedRating(items) ==
    SortedDescending(items, [i \in 1..Len(items) |-> WeightedRatingSquared(items[i])])

\* The size of the slice sorted_results[:20].
TopCount == 20

\* target_item.get("title") or target_item.get("name")
OriginalTitle(target_item) ==
    LET title == Get(target_item, "title", None)
    IN  IF title # None /\ title # "" THEN title ELSE Get(target_item, "name", None)

\* What _get_similar_content returns when the search finds no target.
NoSimilarContent == [results |-> <<>>, total_results |-> 0, total_pages |-> 0]

\* What _get_similar_content returns from the target and the two responses.
similar_content(target_item, similar_resp, recommendations_resp) ==
    LET content_id     == target_item["id"]
        content_type   == target_item["media_type"]
        with_similar   == AddSimilar(ResultsOf(similar_resp), content_type)
        all_results    == AddRecommended(with_similar, ResultsOf(recommendations_resp),
                                         content_type)
        sorted_results == SortedByWeightedRating(RemoveOriginal(all_results, content_id))
    IN  [results        |-> Take(sorted_results, TopCount),
         total_results  |-> Len(sorted_results),
         total_pages    |-> 1,
         original_title |-> OriginalTitle(target_item),
         original_type  |-> content_type]

-----------------------------------------------------------------------------
(* _fetch_content and the requests of TMDBClient *)

\* One request handed to TMDBClient._make_request (the api_key it adds is
\* left out).
Call(method, endpoint, params) ==
    [method |-> method, endpoint |-> endpoint, params |-> params]

\* search_multi(title): page has its default.
search_multi(title) ==
    Call("search_multi", "/search/multi", [query |-> title, page |-> 1])

\* get_similar_movies(content_id) / get_similar_tv(content_id)
get_similar(content_type, content_id) ==
    IF content_type = "movie"
    THEN Call("get_similar_movies", "/movie/" \o Str(content_id) \o "/similar", EmptyDict)
    ELSE Call("get_similar_tv", "/tv/" \o Str(content_id) \o "/similar", EmptyDict)

\* get_movie_recommendations(content_id) / get_tv_recommendations(content_id)
get_recommendations_of(content_type, content_id) ==
    IF content_type = "movie"
    THEN Call("get_movie_recommendations",
              "/movie/" \o Str(content_id) \o "/recommendations", EmptyDict)
    ELSE Call("get_tv_recommendations",
              "/tv/" \o Str(content_id) \o "/recommendations", EmptyDict)

\* The chain of `if "k" in filters: params["p"] = filters["k"]`.
RECURSIVE CopyKeys(_, _, _)
CopyKeys(params, kw, pairs) ==
    IF Len(pairs) = 0 THEN params
    ELSE CopyKeys(IF Head(pairs)[1] \in DOMAIN kw
                  THEN DictSet(params, Head(pairs)[2], kw[Head(pairs)[1]])
                  ELSE params,
                  kw, Tail(pairs))

\* The filter keys discover_movies forwards, each with its parameter name.
MovieFilterKeys == <<
    <<"with_genres", "with_genres">>,
    <<"without_genres", "without_genres">>,
    <<"primary_release_date_gte", "primary_release_date.gte">>,
    <<"primary_release_date_lte", "primary_release_date.lte">>,
    <<"vote_average_gte", "vote_average.gte">>,
    <<"vote_average_lte", "vote_average.lte">>,
    <<"vote_count_gte", "vote_count.gte">>,
    <<"with_runtime_gte", "with_runtime.gte">>,
    <<"with_runtime_lte", "with_runtime.lte">>,
    <<"with_keywords", "with_keywords">>,
    <<"with_cast", "with_cast">>,
    <<"with_crew", "with_crew">>,
    <<"with_companies", "with_companies">> >>

\* The filter keys discover_tv forwards, each with its parameter name.
TvFilterKeys == <<
    <<"with_genres", "with_genres">>,
    <<"air_date_gte", "air_date.gte">>,
    <<"air_date_lte", "air_date.lte">>,
    <<"vote_average_gte", "vote_average.gte">> >>

\* discover_movies(**kw)
discover_movies(kw) ==
    Call("discover_movies", "/discover/movie",
         CopyKeys([sort_by       |-> Get(kw, "sort_by", "popularity.desc"),
                   page          |-> Get(kw, "page", 1),
                   include_adult |-> Get(kw, "include_adult", FALSE)],
                  kw, MovieFilterKeys))

\* discover_tv(**kw)
discover_tv(kw) ==
    Call("discover_tv", "/discover/tv",
         CopyKeys([sort_by |-> Get(kw, "sort_by", "popularity.desc"),
                   page    |-> Get(kw, "page", 1)],
                  kw, TvFilterKeys))

\* The call discover_*(page=page, **filters) raises TypeError when filters
\* has a key "page" (the keyword is given twice).
KeywordTwice(built) == "page" \in DOMAIN built

\* The keyword arguments of discover_*(page=page, **filters).
Keywords(built, pg) == DictSet(built, "page", pg)

\* for movie in movies.get("results", []): movie["media_type"] = "movie"
TagMovies(items) == [i \in 1..Len(items) |-> DictSet(items[i], "media_type", "movie")]

\* A slip: the shows are tagged and their titles left as they are.
TagShowsUntitled(items) == [i \in 1..Len(items) |-> DictSet(items[i], "media_type", "tv")]

\* for show in tv.get("results", []): the media type, and the name as title.
TagShows(items) ==
    [i \in 1..Len(items) |->
        DictSet(DictSet(items[i], "media_type", "tv"), "title", Get(items[i], "name", ""))]

\* What _fetch_content returns for the media type "all".
combined_content(movies_resp, tv_resp, pg) ==
    [results       |-> SortedByWeightedRating(TagMovies(ResultsOf(movies_resp))
                                                  \o TagShows(ResultsOf(tv_resp))),
     total_results |-> Get(movies_resp, "total_results", 0) + Get(tv_resp, "total_results", 0),
     total_pages   |-> Max(Get(movies_resp, "total_pages", 1), Get(tv_resp, "total_pages", 1)),
     page          |-> pg]

-----------------------------------------------------------------------------
(* What the gateway answers *)

\* The largest id of a short page of the gateway.
MaxShortId == 3

\* The length of a long page of the gateway: two of them that share two ids
\* merge to more than TopCount items.
MaxPageItems == 12

\* vote_average (in tenths) and vote_count of the catalogue, by id.  The
\* counts are squares and the averages multiples of 0.5, so that the float
\* product vote_average * vote_count ** 0.5 is exact; 6.0 * 144 ** 0.5 and
\* 9.0 * 64 ** 0.5 are equal.
VoteAverages == <<75, 60, 85, 90, 80, 70, 65>>

VoteCounts == <<9, 144, 400, 64, 4>>

\* The item the gateway lists under an id: a movie has a title and a show a
\* name; every sixth id comes without votes, every fourth without genre_ids.
CatalogItem(kind, id) ==
    MakeDict([id             |-> Some(id),
              title          |-> IF kind = "movie" THEN Some("Movie " \o Str(id)) ELSE NoValue,
              release_date   |-> IF kind = "movie" THEN Some("2001-01-01") ELSE NoValue,
              name           |-> IF kind = "tv" THEN Some("Show " \o Str(id)) ELSE NoValue,
              first_air_date |-> IF kind = "tv" THEN Some("2002-02-02") ELSE NoValue,
              genre_ids      |-> IF id % 4 = 0 THEN NoValue
                                 ELSE IF id % 2 = 0 THEN Some(<<28>>) ELSE Some(<<28, 53>>),
              vote_average   |-> IF id % 6 = 0 THEN NoValue
                                 ELSE Some(VoteAverages[(id % 7) + 1]),
              vote_count     |-> IF id % 6 = 0 THEN NoValue
                                 ELSE Some(VoteCounts[(id % 5) + 1])])

\* The items of a page that lists these ids.
ItemsOf(kind, ids) == [i \in 1..Len(ids) |-> CatalogItem(kind, ids[i])]

\* A search result: the item with its media type.
SearchItem(kind, id) == DictSet(CatalogItem(kind, id), "media_type", kind)

PersonItem == [id |-> 1, media_type |-> "person", name |-> "Person 1"]

\* The answers to search_multi: no result list, an empty one, a person only,
\* a movie first (after a person), a show first.
SearchResponses ==
    {[page |-> 1],
     [page |-> 1, results |-> <<>>],
     [page |-> 1, results |-> <<PersonItem>>],
     [page |-> 1, results |-> <<PersonItem, SearchItem("movie", 1), SearchItem("tv", 2)>>],
     [page |-> 1, results |-> <<SearchItem("tv", 2), SearchItem("movie", 1)>>]}

\* The id lists of a page: up to two ids up to MaxShortId, one id twice, or
\* MaxPageItems ids in a row from 1 or from MaxPageItems - 1.
PageIds ==
    DistinctLists(1..MaxShortId, 2)
           \cup {<<MaxShortId, MaxShortId>>}
           \cup {[i \in 1..MaxPageItems |-> i],
                 [i \in 1..MaxPageItems |-> MaxPageItems - 2 + i]}

\* The answers to get_similar_* and get_*_recommendations.
ListResponses(kind) ==
    {[page |-> 1]} \cup {[page |-> 1, results |-> ItemsOf(kind, ids)] : ids \in PageIds}

\* The answers to discover_movies and discover_tv: the page asked for, of two
\* pages of movies or three of shows.
DiscoverResponses(kind, pg) ==
    {[page |-> pg]} \cup
    {[page          |-> pg,
      results       |-> ItemsOf(kind, ids),
      total_results |-> IF kind = "movie" THEN 20 + Len(ids) ELSE 40 + Len(ids),
      total_pages   |-> IF kind = "movie" THEN 2 ELSE 3] :
        ids \in DistinctLists(1..MaxShortId, 2)}

-----------------------------------------------------------------------------
(* get_recommendations: one request from the query to the response *)

PipelineQueries ==
    {"Happy action movies like Heat but best",
     "shows like Breaking Bad",
     "best action thriller",
     "I want something funny and action-packed",
     "popular all"}

Pages == {1, 2}

Limits == {MaxLimit, 20}

\* The caller's filters: none, a genre filter, or a page.
PipelineFilters ==
    {NoValue} \cup {Some([k \in {key} |-> UserFilterValue[k]]) : key \in {"with_genres", "page"}}

Init ==
    /\ Fresh
    /\ clock_year = 2026
    /\ NoChat
    /\ query \in PipelineQueries
    /\ media_type \in {"movie", "tv", "all"}
    /\ page \in Pages
    /\ limit \in Limits
    /\ user_filters \in PipelineFilters

\* A slip of the dispatch: a query with genre keywords is discovered.
UseSimilarityUnlessGenres(parsed) ==
    /\ parsed.is_similarity_query
    /\ Len(parsed.specific_mentions) > 0
    /\ Len(parsed.genres) = 0

\* if parsed_query["is_similarity_query"] and parsed_query["specific_mentions"]
UseSimilarity(parsed) ==
    /\ parsed.is_similarity_query
    /\ Len(parsed.specific_mentions) > 0

\* The target item of the search response at hand.
target_item == TheValue(TargetOf(search_results))

\* A slip: the exception is swallowed and the request goes on with what it
\* has.
RaiseSwallowed ==
    /\ pc' = "fetched"
    /\ client_open' = FALSE
    /\ response' = response

\* A slip: the exception passes without __aexit__ closing the client.
RaiseLeavesOpen ==
    /\ pc' = "failed"
    /\ client_open' = client_open
    /\ response' = [status_code |-> 500]

\* An exception leaves `async with self.tmdb_client` (the client is closed)
\* and the route answers with status 500.
Raise ==
    /\ pc' = "failed"
    /\ client_open' = FALSE
    /\ response' = [status_code |-> 500]

\* The similarity branch up to its first await: search_multi(title).
StartSimilarity ==
    /\ pc = "parsed"
    /\ UseSimilarity(parsed_query)
    /\ strategy' = "similarity"
    /\ calls' = Append(calls, search_multi(parsed_query.specific_mentions[1]))
    /\ pc' = "search"
    /\ UNCHANGED <<request, outside, parsed_query, filters, client_open,
                   search_results, similar, recommended, movies, tv, results,
                   recommendations, response>>

\* A slip of the translation: for the media type "all" both discover calls are
\* issued before either is awaited.
StartDiscoveryBoth ==
    /\ pc = "parsed"
    /\ ~UseSimilarity(parsed_query)
    /\ strategy' = "discovery"
    /\ filters' = build_filters(parsed_query, user_filters)
    /\ IF KeywordTwice(filters')
       THEN /\ Raise
            /\ UNCHANGED calls
       ELSE /\ calls' = IF media_type = "tv"
                        THEN Append(calls, discover_tv(Keywords(filters', page)))
                        ELSE IF media_type = "movie"
                        THEN Append(calls, discover_movies(Keywords(filters', page)))
                        ELSE calls \o <<discover_movies(Keywords(filters', page)),
                                        discover_tv(Keywords(filters', page))>>
            /\ pc' = IF media_type = "tv" THEN "discover_tv" ELSE "discover_movies"
            /\ UNCHANGED <<client_open, response>>
    /\ UNCHANGED <<request, outside, parsed_query, search_results, similar,
                   recommended, movies, tv, results, recommendations>>

\* The other branch up to its first await: _build_filters, then
\* discover_movies or, for the media type "tv", discover_tv.
StartDiscovery ==
    /\ pc = "parsed"
    /\ ~UseSimilarity(parsed_query)
    /\ strategy' = "discovery"
    /\ filters' = build_filters(parsed_query, user_filters)
    /\ IF KeywordTwice(filters')
       THEN /\ Raise
            /\ UNCHANGED calls
       ELSE /\ calls' = Append(calls,
                               IF media_type = "tv"
                               THEN discover_tv(Keywords(filters', page))
                               ELSE discover_movies(Keywords(filters', page)))
            /\ pc' = IF media_type = "tv" THEN "discover_tv" ELSE "discover_movies"
            /\ UNCHANGED <<client_open, response>>
    /\ UNCHANGED <<request, outside, parsed_query, search_results, similar,
                   recommended, movies, tv, results, recommendations>>

\* search_multi returns: without a target the branch is over, with one
\* get_similar_* is awaited.
SearchReturns ==
    /\ pc = "search"
    /\ \E resp \in SearchResponses :
          /\ search_results' = resp
          /\ IF TargetOf(resp) = NoValue
             THEN /\ results' = NoSimilarContent
                  /\ client_open' = FALSE
                  /\ pc' = "fetched"
                  /\ UNCHANGED calls
             ELSE /\ calls' = Append(calls,
                                     get_similar(TheValue(TargetOf(resp))["media_type"],
                                                 TheValue(TargetOf(resp))["id"]))
                  /\ pc' = "similar"
                  /\ UNCHANGED <<results, client_open>>
    /\ UNCHANGED <<request, outside, parsed_query, strategy, filters, similar,
                   recommended, movies, tv, recommendations, response>>

\* get_similar_* returns: get_*_recommendations is awaited.
SimilarReturns ==
    /\ pc = "similar"
    /\ \E resp \in ListResponses(target_item["media_type"]) : similar' = resp
    /\ calls' = Append(calls,
                       get_recommendations_of(target_item["media_type"], target_item["id"]))
    /\ pc' = "recommendations"
    /\ UNCHANGED <<request, outside, parsed_query, strategy, filters, client_open,
                   search_results, recommended, movies, tv, results, recommendations,
                   response>>

\* get_*_recommendations returns: the rest of _get_similar_content.
RecommendationsReturn ==
    /\ pc = "recommendations"
    /\ \E resp \in ListResponses(target_item["media_type"]) :
          /\ recommended' = resp
          /\ results' = similar_content(target_item, similar, resp)
    /\ client_open' = FALSE
    /\ pc' = "fetched"
    /\ UNCHANGED <<request, outside, parsed_query, strategy, filters, calls,
                   search_results, similar, movies, tv, recommendations, response>>

\* discover_movies returns: the result for the media type "movie", and for
\* "all" discover_tv is awaited.
DiscoverMoviesReturns ==
    /\ pc = "discover_movies"
    /\ \E resp \in DiscoverResponses("movie", page) :
          /\ movies' = resp
          /\ IF media_type = "movie"
             THEN /\ results' = resp
                  /\ client_open' = FALSE
                  /\ pc' = "fetched"
                  /\ UNCHANGED calls
             ELSE /\ calls' = Append(calls, discover_tv(Keywords(filters, page)))
                  /\ pc' = "discover_tv"
                  /\ UNCHANGED <<results, client_open>>
    /\ UNCHANGED <<request, outside, parsed_query, strategy, filters,
                   search_results, similar, recommended, tv, recommendations, response>>

\* discover_tv returns: the result for the media type "tv", and for "all" the
\* combination with the movies.
DiscoverTvReturns ==
    /\ pc = "discover_tv"
    /\ \E resp \in DiscoverResponses("tv", page) :
          /\ tv' = resp
          /\ results' = IF media_type = "tv" THEN resp
                        ELSE combined_content(movies, resp, page)
    /\ client_open' = FALSE
    /\ pc' = "fetched"
    /\ UNCHANGED <<request, outside, parsed_query, strategy, filters, calls,
                   search_results, similar, recommended, movies, recommendations,
                   response>>

\* The awaited request fails: _make_request raises httpx.HTTPError again.
GatewayFails ==
    /\ pc \in {"search", "similar", "recommendations", "discover_movies", "discover_tv"}
    /\ Raise
    /\ UNCHANGED <<request, outside, parsed_query, strategy, filters, calls,
                   search_results, similar, recommended, movies, tv, results,
                   recommendations>>

\* _process_results and the RecommendationResponse.
Respond ==
    /\ pc = "fetched"
    /\ recommendations' = process_results(results, parsed_query, limit)
    /\ response' = [status_code     |-> 200,
                    query           |-> query,
                    total_results   |-> Get(results, "total_results", 0),
                    page            |-> page,
                    total_pages     |-> Get(results, "total_pages", 1),
                    recommendations |-> recommendations',
                    filters_applied |-> Get(parsed_query, "filters", EmptyDict)]
    /\ pc' = "done"
    /\ UNCHANGED <<request, outside, parsed_query, strategy, filters, gateway,
                   results>>

Next ==
    \/ ParseQuery
    \/ StartSimilarity
    \/ StartDiscovery
    \/ SearchReturns
    \/ SimilarReturns
    \/ RecommendationsReturn
    \/ DiscoverMoviesReturns
    \/ DiscoverTvReturns
    \/ GatewayFails
    \/ Respond

Spec == Init /\ [][Next]_vars

-----------------------------------------------------------------------------
(* Properties of the dispatch and of the similarity branch (Spec) *)

\* The methods of the gateway that have been called.
MethodsCalled == {calls[i].method : i \in 1..Len(calls)}

SimilarityMethods ==
    {"search_multi", "get_similar_movies", "get_similar_tv",
     "get_movie_recommendations", "get_tv_recommendations"}

DiscoverMethods == {"discover_movies", "discover_tv"}

\* The request has been dispatched.
Dispatched == pc \notin {"start", "parsed"}

\* C8: a query that matches a similarity pattern is served by the similarity
\* strategy alone, whatever genre keywords, mood or preference filters it also
\* matched: the first call is the search, the calls after it are the similar
\* call and the recommendations call for the target, and no discover call is
\* ever issued.  The discovery strategy is taken exactly when no similarity
\* target was captured, and it issues discover calls only.
C8_SimilarityStrategyOnly ==
    Dispatched =>
        /\ parsed_query.is_similarity_query =>
              /\ strategy = "similarity"
              /\ Len(calls) >= 1 /\ Len(calls) <= 3
              /\ calls[1].method = "search_multi"
              /\ MethodsCalled \subseteq SimilarityMethods
              /\ pc = "done" /\ TargetOf(search_results) # NoValue =>
                    \/ [i \in 1..Len(calls) |-> calls[i].method]
                          = <<"search_multi", "get_similar_movies", "get_movie_recommendations">>
                    \/ [i \in 1..Len(calls) |-> calls[i].method]
                          = <<"search_multi", "get_similar_tv", "get_tv_recommendations">>
        /\ (strategy = "discovery") = (Len(parsed_query.specific_mentions) = 0)
        /\ strategy \in {"similarity", "discovery"}
        /\ strategy = "discovery" => MethodsCalled \subseteq DiscoverMethods

\* C8 witness: a query with a similarity pattern, a genre keyword, a mood and
\* a preference filter has been answered after three calls.
C8_Witness ==
    /\ pc = "done"
    /\ parsed_query.is_similarity_query
    /\ Len(parsed_query.genres) > 0
    /\ parsed_query.mood # None
    /\ DOMAIN parsed_query.filters # {}
    /\ Len(calls) = 3

\* A similarity request whose search found a target has its result set.
SimilarFetched ==
    /\ strategy = "similarity"
    /\ pc \in {"fetched", "done"}
    /\ TargetOf(search_results) # NoValue

\* The ids a response lists.
IdsOf(resp) == {ResultsOf(resp)[i]["id"] : i \in 1..Len(ResultsOf(resp))}

\* C9: in a similarity request no item of the result set, and so no
\* recommendation, has the id of the target picked from the search results,
\* also when the gateway lists the target among its similar or recommended
\* items.
C9_OriginalExcluded ==
    SimilarFetched =>
        /\ target_item["id"] \notin IdsOf(results)
        /\ \A i \in 1..Len(recommendations) :
              recommendations[i].content.id # target_item["id"]

\* C9 witness: the gateway listed the target both as similar and as
\* recommended, next to other items, and recommendations were returned.
C9_Witness ==
    /\ SimilarFetched
    /\ pc = "done"
    /\ target_item["id"] \in IdsOf(similar) \cap IdsOf(recommended)
    /\ Len(recommendations) > 0

\* The ids of the merged items: those of the similar and of the recommended
\* items, without the target.
MergedIds == (IdsOf(similar) \cup IdsOf(recommended)) \ {target_item["id"]}

\* The items the gateway listed as similar or as recommended.
Listed == ResultsOf(similar) \o ResultsOf(recommended)

\* The square of the weighted rating of the item the gateway lists under an
\* id.
RatingOfId(id) ==
    WeightedRatingSquared(Listed[CHOOSE i \in 1..Len(Listed) : Listed[i]["id"] = id])

\* C10: in a similarity request with a target the result set has
\* min(20, |M|) items of the merged items M, each id once, in non-increasing
\* order of vote_average * sqrt(vote_count) (a missing field counts as 0); no
\* item of M left out has a higher weighted rating than a returned one;
\* total_results is |M| and total_pages is 1.
C10_TopTwentyByWeightedRating ==
    SimilarFetched =>
        LET out     == ResultsOf(results)
            M       == MergedIds
            rating  == [id \in M |-> RatingOfId(id)]
            omitted == M \ IdsOf(results)
        IN  /\ Len(out) = Min(20, Cardinality(M))
            /\ IdsOf(results) \subseteq M
            /\ Cardinality(IdsOf(results)) = Len(out)
            /\ \A i \in 1..Len(out) : WeightedRatingSquared(out[i]) = rating[out[i]["id"]]
            /\ \A i \in 1..(Len(out) - 1) :
                  WeightedRatingSquared(out[i]) >= WeightedRatingSquared(out[i + 1])
            /\ \A id \in omitted :
                  \A i \in 1..Len(out) : rating[id] <= WeightedRatingSquared(out[i])
            /\ results["total_results"] = Cardinality(M)
            /\ results["total_pages"] = 1

\* C10 witness: more than 20 merged items, of which one is left out; items
\* without votes are among the returned ones, and so are items of different
\* weighted ratings.
C10_Witness ==
    /\ SimilarFetched
    /\ Cardinality(MergedIds) > 20
    /\ Len(ResultsOf(results)) = 20
    /\ results["total_results"] > 20
    /\ \E i \in 1..20 : "vote_average" \notin DOMAIN ResultsOf(results)[i]
    /\ WeightedRatingSquared(ResultsOf(results)[1])
          > WeightedRatingSquared(ResultsOf(results)[2])

\* The positions of the search hits that are a movie or a show.
MovieOrShowHits ==
    {i \in 1..Len(ResultsOf(search_results)) :
        Get(ResultsOf(search_results)[i], "media_type", None) \in {"movie", "tv"}}

\* The search of a similarity request has returned.
Searched == strategy = "similarity" /\ pc \notin {"start", "parsed", "search", "failed"}

\* C11: when the search of a similarity request returns no hit, or only hits
\* that are neither a movie nor a show, the result set is empty with
\* total_results 0, nothing is raised, no similar or recommendations call is
\* issued and the response carries no recommendation; otherwise the target is
\* the first hit, in the order of the gateway, that is a movie or a show, and
\* the calls that follow are for its kind and id.
C11_EmptySimilarityTarget ==
    Searched =>
        IF MovieOrShowHits = {}
        THEN /\ pc \in {"fetched", "done"}
             /\ ResultsOf(results) = <<>>
             /\ results["total_results"] = 0
             /\ Len(calls) = 1
             /\ pc = "done" => /\ response["status_code"] = 200
                               /\ response["recommendations"] = <<>>
                               /\ response["total_results"] = 0
        ELSE LET first == ResultsOf(search_results)[
                              CHOOSE i \in MovieOrShowHits : \A j \in MovieOrShowHits : i <= j]
                 path  == "/" \o first["media_type"] \o "/" \o Str(first["id"])
             IN  /\ Len(calls) >= 2
                 /\ calls[2].endpoint = path \o "/similar"
                 /\ Len(calls) >= 3 => calls[3].endpoint = path \o "/recommendations"
                 /\ pc \in {"fetched", "done"} => results["original_type"] = first["media_type"]

\* C11 witness: the search found a person only, and the request was answered
\* with no recommendation.
C11_Witness ==
    /\ Searched
    /\ pc = "done"
    /\ Len(ResultsOf(search_results)) = 1
    /\ MovieOrShowHits = {}
    /\ response["recommendations"] = <<>>

\* The positions of get_recommendations at which a gateway call is awaited.
Awaiting == {"search", "similar", "recommendations", "discover_movies", "discover_tv"}

\* The number of gateway calls of the request that have been answered.
Answered ==
    Cardinality({k \in 1..5 :
        DOMAIN (<<search_results, similar, recommended, movies, tv>>[k]) # {}})

\* C12: no gateway call is issued twice; while a call is awaited it is the
\* only one without an answer; a request that failed stopped at the call
\* that failed (or before its first call), is answered with status 500 and
\* nothing else, and has neither a result set nor recommendations, also when
\* the movie half of an all-kinds discovery had been answered; a request that
\* is answered with recommendations had every one of its calls answered.
C12_FailureFailsRequest ==
    /\ \A i, j \in 1..Len(calls) : i < j => calls[i].endpoint # calls[j].endpoint
    /\ pc \in Awaiting => Len(calls) = Answered + 1
    /\ pc \in {"fetched", "done"} => Len(calls) = Answered
    /\ pc = "done" => response["status_code"] = 200
    /\ pc = "failed" =>
          /\ \/ Len(calls) = Answered + 1
             \/ Len(calls) = 0 /\ "page" \in DOMAIN CallerFilters
          /\ DOMAIN response = {"status_code"}
          /\ response["status_code"] = 500
          /\ recommendations = <<>>
          /\ DOMAIN results = {}
          /\ ~client_open

\* C12 witness: in an all-kinds discovery the movies were answered and the
\* call for the shows failed.
C12_Witness ==
    /\ pc = "failed"
    /\ media_type = "all"
    /\ Len(ResultsOf(movies)) > 0
    /\ Len(calls) = 2
    /\ calls[2].method = "discover_tv"
    /\ response["status_code"] = 500

-----------------------------------------------------------------------------
(* The parser and the dispatch applied to the bounded queries (SpecDispatch) *)

\* Any query of ParseQueries, any media type, the caller's filters of the
\* pipeline: the request up to its first gateway call.
InitDispatch ==
    /\ Fresh
    /\ clock_year = 2026
    /\ NoChat
    /\ query \in ParseQueries
    /\ media_type \in {"movie", "tv", "all"}
    /\ page = 1
    /\ limit = 20
    /\ user_filters \in PipelineFilters

NextDispatch == ParseQuery \/ StartSimilarity \/ StartDiscovery

SpecDispatch == InitDispatch /\ [][NextDispatch]_vars

\* The query holds no GENRE_MAP keyword, no MOOD_GENRE_MAP key and no match of
\* a similarity pattern.
NothingRecognized ==
    /\ KeywordHits(Lower(query)) = {}
    /\ MoodHits(Lower(query)) = {}
    /\ \A k \in 1..Len(similarity_patterns) :
          SearchPattern(query, similarity_patterns[k]) = <<>>

\* The parsed query of a query in which nothing is recognized.
ParsedEmpty ==
    /\ parsed_query.genres = <<>>
    /\ parsed_query.keywords = <<>>
    /\ parsed_query.mood = None
    /\ ~parsed_query.is_similarity_query
    /\ parsed_query.specific_mentions = <<>>

\* C13 as claimed: a query in which nothing is recognized is parsed to no
\* genres, no keywords, no mood and no similarity flag, and is discovered with
\* a FilterSet that has no with_genres key.
C13_FallsBackWithoutGenres ==
    (Dispatched /\ NothingRecognized) =>
        /\ ParsedEmpty
        /\ strategy = "discovery"
        /\ "with_genres" \notin DOMAIN filters

\* C13 as amended: the same, but the FilterSet has a with_genres key exactly
\* when the caller's filters have one, and then with the caller's value; the
\* discover call orders by popularity unless the caller asked otherwise, and
\* carries with_genres only from the caller.
C13_FallsBackWithCallerGenresOnly ==
    (Dispatched /\ NothingRecognized) =>
        /\ ParsedEmpty
        /\ strategy = "discovery"
        /\ ("with_genres" \in DOMAIN filters) = ("with_genres" \in DOMAIN CallerFilters)
        /\ "with_genres" \in DOMAIN filters => filters["with_genres"] = CallerFilters["with_genres"]
        /\ Len(calls) >= 1 =>
              /\ calls[1].method \in DiscoverMethods
              /\ calls[1].params["sort_by"] = Get(CallerFilters, "sort_by", "popularity.desc")
              /\ ("with_genres" \in DOMAIN calls[1].params)
                    = ("with_genres" \in DOMAIN CallerFilters)

\* C13 witness: a query in which only a preference word is recognized is
\* discovered, without caller's filters, by popularity and without genres.
C13_Witness ==
    /\ Dispatched
    /\ NothingRecognized
    /\ user_filters = NoValue
    /\ DOMAIN filters = {"primary_release_date_lte"}
    /\ Len(calls) = 1
    /\ calls[1].method = "discover_movies"
    /\ calls[1].params["sort_by"] = "popularity.desc"
    /\ "with_genres" \notin DOMAIN calls[1].params

-----------------------------------------------------------------------------
(* get_mood_recommendations: the mood request and its synthesized query *)

\* MoodQuery.energy_level: Field(5, ge=1, le=10)
MinEnergy == 1
MaxEnergy == 10

\* The largest time_available of the mood requests below.
MaxTime == 121

Moods == {"happy", "bored"}

\* MoodQuery.time_available: Optional[int] without bounds.
TimesAvailable == {NoValue} \cup {Some(t) : t \in -1..MaxTime}

\* if mood_query.time_available: (None and 0 are both false)
Truthy(time_available) == time_available # NoValue /\ TheValue(time_available) # 0

\* if mood_query.energy_level < 3: ... elif mood_query.energy_level > 7: ...
EnergyClause(energy_level) ==
    IF energy_level < 3 THEN " and tired"
    ELSE IF energy_level > 7 THEN " and energetic"
    ELSE ""

\* if mood_query.time_available: if ... < 60: ... elif ... < 120: ... else: ...
TimeClause(time_available) ==
    IF Truthy(time_available)
    THEN IF TheValue(time_available) < 60 THEN ", something short"
         ELSE IF TheValue(time_available) < 120 THEN ", standard length"
         ELSE ", I have plenty of time"
    ELSE ""

\* query_text of get_mood_recommendations
mood_query_text(mq) ==
    ("I'm feeling " \o mq.mood) \o EnergyClause(mq.energy_level)
                                \o TimeClause(mq.time_available)

\* A mood request that has not been translated yet.
InitMood ==
    /\ pc = "mood"
    /\ \E m \in Moods, e \in MinEnergy..MaxEnergy, t \in TimesAvailable,
          p \in {NoValue, Some([with_genres |-> "99"])} :
          mood_query = Some([mood |-> m, energy_level |-> e,
                             time_available |-> t, preferences |-> p])
    /\ suspended = NoValue
    /\ query = ""
    /\ media_type = "all"
    /\ page = 1
    /\ limit = 20
    /\ user_filters = NoValue
    /\ clock_year = 2026
    /\ NoChat
    /\ parsed_query = EmptyDict
    /\ strategy = "none"
    /\ filters = EmptyDict
    /\ NoCalls
    /\ results = EmptyDict
    /\ recommendations = <<>>
    /\ response = EmptyDict

\* recommendation_query = RecommendationQuery(query=query_text,
\*     media_type=MediaType.ALL, filters=mood_query.preferences)
SynthesizeMoodQuery ==
    /\ pc = "mood"
    /\ query' = mood_query_text(TheValue(mood_query))
    /\ media_type' = "all"
    /\ page' = 1
    /\ limit' = 20
    /\ user_filters' = TheValue(mood_query).preferences
    /\ pc' = "start"
    /\ UNCHANGED <<mood_query, outside, parsed_query, strategy, filters, gateway,
                   results, recommendations, response>>

NextMood == SynthesizeMoodQuery \/ ParseQuery

SpecMood == InitMood /\ [][NextMood]_vars

\* The mood request has been translated.
Synthesized == mood_query # NoValue /\ pc # "mood"

\* The text the mood request is to be translated to: the mood, the energy
\* clause, and for every supplied time its clause.
ExpectedMoodText ==
    LET mq == TheValue(mood_query)
        e == mq.energy_level
        feeling == "I'm feeling " \o mq.mood
        energy == IF e \in {1, 2} THEN feeling \o " and tired"
                  ELSE IF e \in {8, 9, 10} THEN feeling \o " and energetic"
                  ELSE feeling
    IN  IF mq.time_available = NoValue THEN energy
        ELSE LET t == TheValue(mq.time_available)
             IN  CASE t < 60 -> energy \o ", something short"
                   [] 60 <= t /\ t < 120 -> energy \o ", standard length"
                   [] t >= 120 -> energy \o ", I have plenty of time"

\* C14: the query synthesized for a mood request is "I'm feeling m", then
\* " and tired" for an energy below 3 or " and energetic" for one above 7, then,
\* whenever a time is supplied, ", something short" below 60, ", standard
\* length" from 60 to 119 and ", I have plenty of time" from 120.
C14_MoodTextSynthesized == Synthesized => query = ExpectedMoodText

\* The same for every mood request but the one with a time of 0 minutes.
C14_MoodTextSynthesizedButZero ==
    (Synthesized /\ TheValue(mood_query).time_available # Some(0)) =>
        query = ExpectedMoodText

\* C14 witness: a time of 0 minutes is supplied and no time clause follows.
C14_ZeroTimeDropped ==
    /\ Synthesized
    /\ TheValue(mood_query).time_available = Some(0)
    /\ TheValue(mood_query).energy_level = 5
    /\ query = "I'm feeling " \o TheValue(mood_query).mood

-----------------------------------------------------------------------------
(* The similarity target of a query *)

\* The positions right after the occurrences of a pattern's words in q.
WordsEndAt(q, words) == {MatchWordsAt(q, i, words) : i \in 1..Len(q)} \ {0}

\* The phrase that follows pattern words ending before j, if there is one:
\* white space, then the text up to the first "but" that leaves it non-empty,
\* or up to the end, without the white space around it. Two white space
\* characters and nothing else leave an empty phrase.
PhraseFrom(q, j) ==
    LET k == SkipSpace(q, j)
    IN  IF k = j THEN {}
        ELSE IF k > Len(q) THEN (IF k - j >= 2 THEN {""} ELSE {})
        ELSE LET r == SubSeq(q, k, Len(q))
                 B == {b \in 2..(Len(r) - 2) : Lower(SubSeq(r, b, b + 2)) = "but"}
             IN  IF B = {} THEN {Strip(r)}
                 ELSE LET b == CHOOSE x \in B : \A y \in B : x <= y
                      IN  {Strip(SubSeq(r, 1, b - 1))}

\* The patterns, by position in similarity_patterns, that q matches.
PatternsMatched(q) ==
    {k \in 1..Len(similarity_patterns) :
        \E j \in WordsEndAt(q, similarity_patterns[k]) : PhraseFrom(q, j) # {}}

\* The targets expected of q: the phrase after the leftmost occurrence of the
\* first pattern matched, or none.
ExpectedMentions(q) ==
    IF PatternsMatched(q) = {} THEN <<>>
    ELSE LET k == CHOOSE x \in PatternsMatched(q) : \A y \in PatternsMatched(q) : x <= y
             J == {j \in WordsEndAt(q, similarity_patterns[k]) : PhraseFrom(q, j) # {}}
             j == CHOOSE x \in J : \A y \in J : x <= y
         IN  <<TheValue(PhraseFrom(q, j))>>

-----------------------------------------------------------------------------
(* The request "I want something funny and action-packed" *)

FunnyActionPacked ==
    /\ query = "I want something funny and action-packed"
    /\ media_type = "all"
    /\ limit = 20

\* The genre-overlap score of an item against a genre list, rating aside.
OverlapScore(it, genres) ==
    LET overlap == Cardinality(Range(genres) \cap Range(ItemGenres(it)))
    IN  Hundredths(50) + (Hundredths(30) * overlap) \div Len(genres)

\* C16: for "I want something funny and action-packed", all kinds, limit 20,
\* the parsed genres contain 35 (comedy) and 28 (action) and there is no
\* similarity flag; the fetch issues one movie and one tv discover call; every
\* scored item has the genre-overlap bonus computed against these genres.
C16_FunnyActionPackedGenres ==
    (FunnyActionPacked /\ pc # "start") =>
        /\ {35, 28} \subseteq Range(parsed_query.genres)
        /\ ~parsed_query.is_similarity_query
        /\ pc \in {"fetched", "done"} =>
              [i \in 1..Len(calls) |-> calls[i].method] = <<"discover_movies", "discover_tv">>
        /\ pc = "done" =>
              \A i \in 1..Len(recommendations) :
                  recommendations[i].relevance_score
                      = Min(OverlapScore(ItemOf(recommendations[i]), parsed_query.genres)
                               + RatingBonus(ItemOf(recommendations[i])), ScoreUnit)

\* C16 witness: the request is answered after the two discover calls with
\* the genre 28 alone, "funny" being no key of GENRE_MAP or MOOD_GENRE_MAP.
C16_OnlyAction ==
    /\ FunnyActionPacked
    /\ pc = "done"
    /\ user_filters = NoValue
    /\ parsed_query.genres = <<28>>
    /\ 35 \notin Range(parsed_query.genres)
    /\ parsed_query.mood = None
    /\ filters["with_genres"] = "28"
    /\ [i \in 1..Len(calls) |-> calls[i].method] = <<"discover_movies", "discover_tv">>
    /\ Len(recommendations) > 0

-----------------------------------------------------------------------------
(* Two requests in flight *)

\* Everything that belongs to the running request: its RecommendationQuery,
\* the locals of get_recommendations and its service with the gateway client.
Running ==
    [pc |-> pc, mood_query |-> mood_query, query |-> query,
     media_type |-> media_type, page |-> page, limit |-> limit,
     user_filters |-> user_filters, parsed_query |-> parsed_query,
     strategy |-> strategy, filters |-> filters, client_open |-> client_open,
     calls |-> calls, search_results |-> search_results, similar |-> similar,
     recommended |-> recommended, movies |-> movies, tv |-> tv,
     results |-> results, recommendations |-> recommendations,
     response |-> response]

\* A slip: one service, and so one gateway client, serves every request.
ClientShared(own, other) == other

\* get_recommendation_service returns a new service for every request, and
\* its __init__ a new TMDBClient: a request finds the client it left.
ClientOf(own, other) == own

\* The event loop resumes the other request and suspends the running one.
Switch ==
    /\ suspended # NoValue
    /\ LET other == TheValue(suspended)
       IN  /\ pc' = other.pc
           /\ mood_query' = other.mood_query
           /\ query' = other.query
           /\ media_type' = other.media_type
           /\ page' = other.page
           /\ limit' = other.limit
           /\ user_filters' = other.user_filters
           /\ parsed_query' = other.parsed_query
           /\ strategy' = other.strategy
           /\ filters' = other.filters
           /\ client_open' = ClientOf(other.client_open, client_open)
           /\ calls' = other.calls
           /\ search_results' = other.search_results
           /\ similar' = other.similar
           /\ recommended' = other.recommended
           /\ movies' = other.movies
           /\ tv' = other.tv
           /\ results' = other.results
           /\ recommendations' = other.recommendations
           /\ response' = other.response
    /\ suspended' = Some(Running)
    /\ UNCHANGED <<clock_year, streams, db>>

\* A request that has not been handled yet.
NewRequest(q, kind, uf) ==
    [pc |-> "start", mood_query |-> NoValue, query |-> q, media_type |-> kind,
     page |-> 1, limit |-> MaxLimit, user_filters |-> uf,
     parsed_query |-> EmptyDict, strategy |-> "none", filters |-> EmptyDict,
     client_open |-> TRUE, calls |-> <<>>, search_results |-> EmptyDict,
     similar |-> EmptyDict, recommended |-> EmptyDict, movies |-> EmptyDict,
     tv |-> EmptyDict, results |-> EmptyDict, recommendations |-> <<>>,
     response |-> EmptyDict]

\* Two requests for one kind of content each, none handled yet.
InitTwo ==
    /\ pc = "start"
    /\ mood_query = NoValue
    /\ clock_year = 2026
    /\ NoChat
    /\ query = "best action thriller"
    /\ media_type \in {"movie", "tv"}
    /\ page = 1
    /\ limit = MaxLimit
    /\ user_filters = NoValue
    /\ parsed_query = EmptyDict
    /\ strategy = "none"
    /\ filters = EmptyDict
    /\ NoCalls
    /\ results = EmptyDict
    /\ recommendations = <<>>
    /\ response = EmptyDict
    /\ \E kind \in {"movie", "tv"},
          uf \in {NoValue, Some([with_genres |-> UserFilterValue["with_genres"]])} :
          suspended = Some(NewRequest("old sad drama", kind, uf))

NextTwo ==
    \/ ParseQuery
    \/ StartDiscovery
    \/ DiscoverMoviesReturns
    \/ DiscoverTvReturns
    \/ GatewayFails
    \/ Respond
    \/ Switch

SpecTwo == InitTwo /\ [][NextTwo]_vars

\* What a request holds is what its own query, filters, media type, page and
\* limit and the answers to its own calls give.
OwnOutcome(r) ==
    /\ r.pc # "start" => r.parsed_query = parse_query(r.query, clock_year)
    /\ r.pc \notin {"start", "parsed"} =>
          /\ r.strategy = "discovery"
          /\ r.filters = build_filters(r.parsed_query, r.user_filters)
          /\ Len(r.calls) = 1
          /\ r.calls[1] = IF r.media_type = "tv"
                          THEN discover_tv(Keywords(r.filters, r.page))
                          ELSE discover_movies(Keywords(r.filters, r.page))
    /\ r.pc \in Awaiting => r.client_open /\ DOMAIN r.results = {}
    /\ r.pc \in {"fetched", "done"} =>
          /\ r.results = IF r.media_type = "tv" THEN r.tv ELSE r.movies
          /\ r.results \in DiscoverResponses(r.media_type, r.page)
    /\ r.pc = "done" =>
          /\ r.recommendations = process_results(r.results, r.parsed_query, r.limit)
          /\ r.response["status_code"] = 200
          /\ r.response["query"] = r.query
          /\ r.response["recommendations"] = r.recommendations
    /\ r.pc # "done" => r.recommendations = <<>>

\* C17: however two requests interleave, each one's parsed query, filters,
\* calls and recommendations are those of its own query, filters, media type,
\* page and limit and of the answers to its own calls, and a request that
\* awaits an answer still has its gateway client open, whatever the other
\* request has done.  (GENRE_MAP and MOOD_GENRE_MAP are read, never written:
\* every parse, also one after another request, is the parse with the tables
\* as they are at start.)
C17_RequestsIsolated ==
    suspended # NoValue => OwnOutcome(Running) /\ OwnOutcome(TheValue(suspended))

\* C17 witness: a request awaits its answer, its client open, after the other
\* request was answered and closed its own client.
C17_Witness ==
    /\ suspended # NoValue
    /\ pc \in Awaiting
    /\ client_open
    /\ TheValue(suspended).pc = "done"
    /\ ~TheValue(suspended).client_open
    /\ Len(TheValue(suspended).recommendations) > 0
    /\ TheValue(suspended).query # query

-----------------------------------------------------------------------------
(* The relevance score spelled out *)

\* B: 0.9 / 0.8 / 0.5 by tag in similarity mode; otherwise 0.5, and with a
\* non-empty requested set and a non-zero overlap 0.3 x overlap / requested
\* more, the item's genres being those of the structured list, or of
\* genre_ids when that list is absent or empty.
ExpectedBase(it, parsed) ==
    IF parsed.is_similarity_query
    THEN CASE "similarity_type" \in DOMAIN it /\ it["similarity_type"] = "similar"
                 -> Hundredths(90)
           [] "similarity_type" \in DOMAIN it /\ it["similarity_type"] = "recommended"
                 -> Hundredths(80)
           [] OTHER -> Hundredths(50)
    ELSE LET structured == IF "genres" \in DOMAIN it
                           THEN {it["genres"][i].id : i \in 1..Len(it["genres"])}
                           ELSE {}
             flat == IF "genre_ids" \in DOMAIN it
                     THEN {it["genre_ids"][i] : i \in 1..Len(it["genre_ids"])}
                     ELSE {}
             item == IF structured # {} THEN structured ELSE flat
             requested == {parsed.genres[i] : i \in 1..Len(parsed.genres)}
             n == Cardinality(requested \cap item)
         IN  IF requested # {} /\ n > 0
             THEN Hundredths(50) + (Hundredths(30) * n) \div Cardinality(requested)
             ELSE Hundredths(50)

\* R: +0.2, else +0.1, else +0.05, else 0, by rating and votes (0 when absent).
ExpectedRating(it) ==
    LET rating == IF "vote_average" \in DOMAIN it THEN it["vote_average"] ELSE 0
        votes == IF "vote_count" \in DOMAIN it THEN it["vote_count"] ELSE 0
    IN  CASE rating >= 80 /\ votes >= 100 -> Hundredths(20)
          [] ~(rating >= 80 /\ votes >= 100) /\ rating >= 70 /\ votes >= 50 -> Hundredths(10)
          [] ~(rating >= 80 /\ votes >= 100) /\ ~(rating >= 70 /\ votes >= 50) /\ rating >= 60
                -> Hundredths(5)
          [] OTHER -> 0

\* C18: the relevance score of every item under every parsed query is
\* min(1.0, B + R).
C18_RelevanceFormula ==
    pc = "ranked" =>
        /\ Len(recommendations) = 1
        /\ LET it == Fetched[1]
               sum == ExpectedBase(it, parsed_query) + ExpectedRating(it)
           IN  recommendations[1].relevance_score
                   = IF sum > ScoreUnit THEN ScoreUnit ELSE sum

\* C18 witness: one of two requested genres is in the structured list, both
\* are in genre_ids, and the rating earns 0.1: 0.5 + 0.15 + 0.1.
C18_Witness ==
    /\ pc = "ranked"
    /\ ~parsed_query.is_similarity_query
    /\ parsed_query.genres = <<28, 53>>
    /\ Get(Fetched[1], "genres", <<>>) = <<[id |-> 28]>>
    /\ Get(Fetched[1], "genre_ids", <<>>) = <<28, 53, 99>>
    /\ Get(Fetched[1], "vote_average", 0) = 79
    /\ Get(Fetched[1], "vote_count", 0) = 50
    /\ recommendations[1].relevance_score = Hundredths(75)

-----------------------------------------------------------------------------
(* The similarity merge: tags and kinds *)

\* C19: in the result set of a similarity request every id stands once; an
\* item whose id the gateway lists as similar is tagged "similar", also when
\* the gateway lists the id as recommended too; an item is tagged
\* "recommended" only if the gateway lists its id as recommended and not as
\* similar; every item carries the kind of the target.
C19_MergeTagsByFirstList ==
    SimilarFetched =>
        LET out == ResultsOf(results)
        IN  /\ \A i, j \in 1..Len(out) : out[i]["id"] = out[j]["id"] => i = j
            /\ \A i \in 1..Len(out) :
                  /\ "similarity_type" \in DOMAIN out[i]
                  /\ out[i]["similarity_type"] \in {"similar", "recommended"}
                  /\ out[i]["id"] \in IdsOf(similar) => out[i]["similarity_type"] = "similar"
                  /\ out[i]["similarity_type"] = "recommended" =>
                        out[i]["id"] \in IdsOf(recommended) \ IdsOf(similar)
                  /\ out[i]["media_type"] = target_item["media_type"]
                  /\ out[i]["media_type"] = results["original_type"]

\* C19 witness: the gateway lists an id as similar and as recommended, and
\* another as recommended only; the result set has the first tagged "similar"
\* and the second tagged "recommended", both with the kind tv of the target.
C19_Witness ==
    /\ SimilarFetched
    /\ target_item["media_type"] = "tv"
    /\ \E i, j \in 1..Len(ResultsOf(results)) :
          /\ ResultsOf(results)[i]["id"] \in IdsOf(similar) \cap IdsOf(recommended)
          /\ ResultsOf(results)[i]["similarity_type"] = "similar"
          /\ ResultsOf(results)[j]["id"] \in IdsOf(recommended) \ IdsOf(similar)
          /\ ResultsOf(results)[j]["similarity_type"] = "recommended"
          /\ ResultsOf(results)[j]["media_type"] = "tv"

-----------------------------------------------------------------------------
(* The all-kinds discovery *)

\* An all-kinds discovery has both its answers.
BothDiscovered ==
    /\ strategy = "discovery"
    /\ media_type = "all"
    /\ pc \in {"fetched", "done"}

\* The number of items of a list with this kind and id.
CountOf(items, kind, id) ==
    Cardinality({i \in 1..Len(items) :
                    Get(items[i], "media_type", kind) = kind /\ items[i]["id"] = id})

\* An item of the result set is the gateway's item with its kind, and for a
\* show with its name as title.
TaggedFrom(it, items) ==
    \E i \in 1..Len(items) :
        /\ \A key \in DOMAIN items[i] \ {"title", "media_type"} :
              key \in DOMAIN it /\ it[key] = items[i][key]
        /\ DOMAIN it = DOMAIN items[i] \cup {"media_type"}
                          \cup (IF it["media_type"] = "tv" THEN {"title"} ELSE {})
        /\ IF it["media_type"] = "tv"
           THEN it["title"] = items[i]["name"]
           ELSE it["title"] = items[i]["title"]

\* C20: the result set of an all-kinds discovery holds the movie results and
\* the tv results, every one of them once (as many items as both answers
\* together, none dropped, none merged), each tagged with its kind, each show
\* titled by its name, in non-increasing order of vote_average x
\* sqrt(vote_count); total_results is the sum of the totals (0 for an answer
\* without one), total_pages the maximum of the page counts (1 for an answer
\* without one), page the requested page.
C20_AllKindsCombined ==
    BothDiscovered =>
        LET out == ResultsOf(results)
            M   == ResultsOf(movies)
            T   == ResultsOf(tv)
        IN  /\ Len(out) = Len(M) + Len(T)
            /\ \A id \in IdsOf(movies) \cup IdsOf(tv) \cup IdsOf(results) :
                  /\ CountOf(out, "movie", id) = CountOf(M, "movie", id)
                  /\ CountOf(out, "tv", id) = CountOf(T, "tv", id)
            /\ \A i \in 1..Len(out) :
                  /\ out[i]["media_type"] \in {"movie", "tv"}
                  /\ TaggedFrom(out[i], IF out[i]["media_type"] = "tv" THEN T ELSE M)
            /\ \A i \in 1..(Len(out) - 1) :
                  WeightedRatingSquared(out[i]) >= WeightedRatingSquared(out[i + 1])
            /\ results["total_results"]
                  = (IF "total_results" \in DOMAIN movies THEN movies["total_results"] ELSE 0)
                    + (IF "total_results" \in DOMAIN tv THEN tv["total_results"] ELSE 0)
            /\ LET mp == IF "total_pages" \in DOMAIN movies THEN movies["total_pages"] ELSE 1
                   tp == IF "total_pages" \in DOMAIN tv THEN tv["total_pages"] ELSE 1
               IN  results["total_pages"] = IF mp >= tp THEN mp ELSE tp
            /\ results["page"] = page
            /\ pc = "done" =>
                  /\ response["page"] = page
                  /\ response["total_results"] = results["total_results"]
                  /\ response["total_pages"] = results["total_pages"]

\* C20 witness: two movies and two shows, one id being both a movie and a
\* show; the four items are returned, a show first, with 20 + 2 + 40 + 2
\* results on max(2, 3) pages.
C20_Witness ==
    /\ BothDiscovered
    /\ page = 2
    /\ Len(ResultsOf(movies)) = 2
    /\ Len(ResultsOf(tv)) = 2
    /\ IdsOf(movies) \cap IdsOf(tv) # {}
    /\ Len(ResultsOf(results)) = 4
    /\ ResultsOf(results)[1]["media_type"] = "tv"
    /\ ResultsOf(results)[1]["title"] = ResultsOf(results)[1]["name"]
    /\ WeightedRatingSquared(ResultsOf(results)[1]) > WeightedRatingSquared(ResultsOf(results)[4])
    /\ results["total_results"] = 64
    /\ results["total_pages"] = 3
    /\ results["page"] = 2

-----------------------------------------------------------------------------
(* The order of the two discover calls *)

\* An all-kinds discovery that has issued a call.
AllKindsCalling ==
    /\ strategy = "discovery"
    /\ media_type = "all"
    /\ Len(calls) > 0

-----------------------------------------------------------------------------
(* The filters the discover calls carry *)

\* The gateway parameters under which a filter of the FilterSet may travel
\* (for a date bound also the names the tv endpoint has for it).
FilterParams(key) ==
    CASE key = "vote_average_gte" -> {"vote_average.gte"}
      [] key = "vote_count_gte" -> {"vote_count.gte"}
      [] key = "primary_release_date_gte"
            -> {"primary_release_date.gte", "first_air_date.gte", "air_date.gte"}
      [] key = "primary_release_date_lte"
            -> {"primary_release_date.lte", "first_air_date.lte", "air_date.lte"}
      [] OTHER -> {key}

\* The call carries this filter of the FilterSet.
Carries(call, key) ==
    \E param \in FilterParams(key) \cap DOMAIN call.params :
        call.params[param] = filters[key]

\* The discover calls of a discovery request.
DiscoverCalls ==
    {i \in 1..Len(calls) : strategy = "discovery" /\ calls[i].method \in DiscoverMethods}

\* C22: every discover call, of either kind, carries the requested page and
\* every filter of the FilterSet built for the request.
C22_DiscoverCarriesFilters ==
    \A i \in DiscoverCalls :
        /\ calls[i].params["page"] = page
        /\ \A key \in DOMAIN filters : Carries(calls[i], key)

\* The same for the movie call alone.
C22_MovieCallCarriesFilters ==
    \A i \in DiscoverCalls :
        calls[i].method = "discover_movies" =>
            /\ calls[i].params["page"] = page
            /\ \A key \in DOMAIN filters : Carries(calls[i], key)

\* C22 witness: in an all-kinds discovery of the best action thrillers the
\* movie call carries the minimum vote count and the tv call does not.
C22_TvDropsVoteCount ==
    /\ strategy = "discovery"
    /\ media_type = "all"
    /\ Len(calls) = 2
    /\ "vote_count_gte" \in DOMAIN filters
    /\ calls[1].method = "discover_movies"
    /\ calls[1].params["vote_count.gte"] = filters["vote_count_gte"]
    /\ calls[2].method = "discover_tv"
    /\ calls[2].params["page"] = page
    /\ calls[2].params["with_genres"] = filters["with_genres"]
    /\ "vote_count.gte" \notin DOMAIN calls[2].params

-----------------------------------------------------------------------------
(* The filters derived from preference words *)

\* The query contains one of these words, in any case.
Mentions(words) ==
    \E w \in words : \E i \in 1..Len(query) :
        /\ i + Len(w) - 1 <= Len(query)
        /\ Lower(SubSeq(query, i, i + Len(w) - 1)) = w

\* C23: the filter map of the parsed query has the minimum rating 7.5 and the
\* minimum vote count 100 exactly when the query contains "highly rated" or
\* "best", the lower release-date bound of 1 January two years before the
\* current year exactly when it contains "new", "recent" or "latest", the
\* upper bound 2000-01-01 exactly when it contains "classic" or "old", and no
\* other key; the rules apply independently of each other.
C23_PreferenceFilters ==
    pc = "parsed" =>
        LET f == parsed_query.filters
        IN  /\ ("vote_average_gte" \in DOMAIN f) = Mentions({"highly rated", "best"})
            /\ ("vote_count_gte" \in DOMAIN f) = Mentions({"highly rated", "best"})
            /\ ("primary_release_date_gte" \in DOMAIN f) = Mentions({"new", "recent", "latest"})
            /\ ("primary_release_date_lte" \in DOMAIN f) = Mentions({"classic", "old"})
            /\ DOMAIN f \subseteq {"vote_average_gte", "vote_count_gte",
                                   "primary_release_date_gte", "primary_release_date_lte"}
            /\ "vote_average_gte" \in DOMAIN f => f["vote_average_gte"] = 75
            /\ "vote_count_gte" \in DOMAIN f => f["vote_count_gte"] = 100
            /\ "primary_release_date_gte" \in DOMAIN f =>
                  f["primary_release_date_gte"]
                      = (IF clock_year = 2026 THEN "2024-01-01" ELSE "2023-01-01")
            /\ "primary_release_date_lte" \in DOMAIN f =>
                  f["primary_release_date_lte"] = "2000-01-01"

\* C23 witness: a query with "best" and "old", parsed in 2025 or 2026, has
\* the filters of both rules and no lower date bound.
C23_Witness ==
    /\ pc = "parsed"
    /\ Mentions({"best"}) /\ Mentions({"old"}) /\ ~Mentions({"new", "recent", "latest"})
    /\ DOMAIN parsed_query.filters
          = {"vote_average_gte", "vote_count_gte", "primary_release_date_lte"}

-----------------------------------------------------------------------------
(* Runtime words, year tokens and "underrated" *)

\* The query has a token of four digits from 1900 to 2099: \b(19\d{2}|20\d{2})\b
HasYearToken ==
    \E i \in 1..(Len(query) - 3) :
        /\ SubSeq(query, i, i + 1) \in {"19", "20"}
        /\ \A k \in {i + 2, i + 3} :
              Char(query, k) \in {"0", "1", "2", "3", "4", "5", "6", "7", "8", "9"}
        /\ i > 1 => Char(query, i - 1) \in WhiteSpace \cup {",", ".", "(", "-"}
        /\ i + 4 <= Len(query) => Char(query, i + 4) \in WhiteSpace \cup {",", ".", ")", "-"}

\* A discovery request without caller's filters has its FilterSet.
FilterSetBuilt ==
    /\ Dispatched
    /\ strategy = "discovery"
    /\ user_filters = NoValue

\* C24: the FilterSet of a request has runtime bounds when the query has a
\* runtime word, a year filter when it has a year token, and the rating band
\* 6.5 with 50 to 1000 votes when it has "underrated".
C24_RuntimeYearUnderrated ==
    FilterSetBuilt =>
        /\ Mentions({"quick", "short", "standard", "long", "binge"}) =>
              {"with_runtime_gte", "with_runtime_lte"} \subseteq DOMAIN filters
        /\ HasYearToken =>
              DOMAIN filters \cap {"primary_release_year", "year", "first_air_date_year",
                                   "primary_release_date_gte"} # {}
        /\ Mentions({"underrated"}) =>
              /\ {"vote_average_gte", "vote_count_gte", "vote_count_lte"} \subseteq DOMAIN filters
              /\ filters["vote_average_gte"] = 65
              /\ filters["vote_count_gte"] = 50
              /\ filters["vote_count_lte"] = 1000

\* C24 witness: a query with "underrated", "short" and the year 1999 is
\* discovered with the genre of its keyword as only filter.
C24_OnlyGenres ==
    /\ FilterSetBuilt
    /\ Mentions({"underrated"})
    /\ Mentions({"short"})
    /\ HasYearToken
    /\ filters = [with_genres |-> "35"]
    /\ Len(calls) = 1

-----------------------------------------------------------------------------
(* The kind of the recommendations *)

\* The kinds of the recommendations returned.
KindsReturned ==
    {recommendations[i].content.media_type : i \in 1..Len(recommendations)}

\* C25: every recommendation of a request for movies is a movie and every
\* recommendation of a request for tv is a show, under both strategies.
C25_KindAsRequested ==
    (pc = "done" /\ media_type \in {"movie", "tv"}) => KindsReturned \subseteq {media_type}

\* The same under the discovery strategy alone.
C25_KindAsRequestedInDiscovery ==
    (pc = "done" /\ media_type \in {"movie", "tv"} /\ strategy = "discovery") =>
        KindsReturned \subseteq {media_type}

\* C25 witness: a similarity request for movies whose search found a show
\* first is answered with shows.
C25_ShowsForMovieRequest ==
    /\ pc = "done"
    /\ SimilarFetched
    /\ media_type = "movie"
    /\ target_item["media_type"] = "tv"
    /\ Len(calls) = 3
    /\ calls[2].method = "get_similar_tv"
    /\ KindsReturned = {"tv"}

-----------------------------------------------------------------------------
(* filters_applied *)

\* A discovery request has been answered.
DiscoveryAnswered == pc = "done" /\ strategy = "discovery"

\* C26: the filters_applied of the response to a discovery request are the
\* FilterSet that _build_filters produced and the discover calls were given,
\* with its with_genres entry and the caller's overrides.
C26_FiltersAppliedAreBuilt ==
    DiscoveryAnswered =>
        /\ response["filters_applied"] = filters
        /\ "with_genres" \in DOMAIN filters =>
              /\ "with_genres" \in DOMAIN response["filters_applied"]
              /\ response["filters_applied"]["with_genres"] = calls[1].params["with_genres"]

\* What the response holds instead: the filters the parser derived from the
\* preference words.
C26_FiltersAppliedAreParsed ==
    DiscoveryAnswered => response["filters_applied"] = parsed_query.filters

\* C26 witness: the discover calls were given the genres "28,53" next to the
\* rating filters, and filters_applied has the rating filters alone.
C26_GenresNotReported ==
    /\ DiscoveryAnswered
    /\ user_filters = NoValue
    /\ DOMAIN filters = {"with_genres", "vote_average_gte", "vote_count_gte"}
    /\ filters["with_genres"] = "28,53"
    /\ calls[1].params["with_genres"] = "28,53"
    /\ DOMAIN response["filters_applied"] = {"vote_average_gte", "vote_count_gte"}

-----------------------------------------------------------------------------
(* The page of the discover calls *)

\* A request that took the discovery strategy.
Discovering == Dispatched /\ strategy = "discovery"

\* C27: whatever the keys of the caller's filters, a discovery request issues
\* its discover calls with the page of the request: the caller's filters
\* neither change the page nor fail the request before its first call.
C27_PageFromRequest ==
    Discovering =>
        /\ Len(calls) >= 1
        /\ \A i \in 1..Len(calls) : calls[i].params["page"] = page

\* The same for caller's filters without a key "page".
C27_PageFromRequestUnlessPageKey ==
    (Discovering /\ "page" \notin DOMAIN CallerFilters) =>
        /\ Len(calls) >= 1
        /\ \A i \in 1..Len(calls) : calls[i].params["page"] = page

\* C27 witness: the caller's filters have a key "page"; the request has
\* failed with status 500 and no call was issued.
C27_PageKeyFailsRequest ==
    /\ Discovering
    /\ "page" \in DOMAIN CallerFilters
    /\ "page" \in DOMAIN filters
    /\ pc = "failed"
    /\ calls = <<>>
    /\ response["status_code"] = 500

-----------------------------------------------------------------------------
(* The life of the gateway client *)

\* The client is open up to the end of the fetch phase and closed from then
\* on.
ClientAsPhase ==
    /\ pc \in {"start", "parsed"} \cup Awaiting => client_open
    /\ pc \in {"fetched", "done", "failed"} => ~client_open

\* A step that issues a call finds the client open and leaves it open; a step
\* that changes the client closes it, and is the step that ends the fetch
\* phase.
ClientStep ==
    /\ calls' # calls =>
          /\ client_open /\ client_open'
          /\ Len(calls') = Len(calls) + 1
          /\ \A i \in 1..Len(calls) : calls'[i] = calls[i]
    /\ client_open' # client_open =>
          /\ client_open /\ ~client_open'
          /\ pc \in {"parsed"} \cup Awaiting
          /\ pc' \in {"fetched", "failed"}

\* C28: every gateway call of a request is issued while its client is open;
\* the client is closed once, by the step that ends the fetch phase, be it
\* with a result or with a failure, and no call is issued after that.
C28_ClientOpenForEveryCall == []ClientAsPhase /\ [][ClientStep]_vars

\* C28 witness: the third call of a similarity request failed and the client
\* is closed.
C28_Witness ==
    /\ pc = "failed"
    /\ strategy = "similarity"
    /\ Len(calls) = 3
    /\ ~client_open

-----------------------------------------------------------------------------
(* The pages of a similarity response *)

\* A similarity request has been answered with at least one recommendation.
SimilarityAnswered ==
    /\ pc = "done"
    /\ strategy = "similarity"
    /\ Len(recommendations) > 0

\* C29: a similarity response with at least one recommendation reports a
\* page that does not exceed its total_pages (and a page beyond the first
\* does not repeat the first).
C29_PageWithinTotalPages ==
    SimilarityAnswered => response["page"] <= response["total_pages"]

\* What holds instead: the requested page reaches no gateway call of the
\* similarity branch, whose calls ask for page 1 or name no page, the
\* response reports one page in all, and the page of the request is echoed
\* as it came.
C29_SimilarityIgnoresPage ==
    SimilarityAnswered =>
        /\ response["total_pages"] = 1
        /\ response["page"] = page
        /\ \A i \in 1..Len(calls) :
              IF calls[i].method = "search_multi"
              THEN calls[i].params["page"] = 1
              ELSE calls[i].params = EmptyDict

\* C29 witness: page 2 of a one-page similarity response, with
\* recommendations.
C29_PageTwoOfOne ==
    /\ SimilarityAnswered
    /\ page = 2
    /\ response["page"] = 2
    /\ response["total_pages"] = 1

-----------------------------------------------------------------------------
(* The chat stream: generate_ai_response *)

\* The length a session title is cut to.
TitleLength == 50

\* The chat streams in flight, on one session.
Streams == {1, 2}

\* What the users write: a short message and one longer than a title.
UserMessages ==
    {"something like Heat",
     "recommend a comedy for a rainy sunday evening, please"}

\* The completions the model may stream: the content of their deltas, in
\* order (None: a delta without content).
Completions == {<<"Try ", None, "\"Heat\".">>, <<None>>}

\* What str(e) of a failure inside generate_streaming_response reads.
Failures == {"Connection error"}

\* The title of a session nobody has renamed.
NewChat == "New Chat"

\* Message(session_id=..., role=..., content=...); `stream` stands for the
\* id of the row and tells which stream wrote it (0: an earlier exchange).
Message(role, content, stream) ==
    [role |-> role, content |-> content, stream |-> stream]

\* An earlier exchange of the session.
EarlierMessages ==
    <<Message("user", "hello", 0), Message("assistant", "Hi!", 0)>>

\* json.dumps of one ASCII character inside a string: the quote, the
\* backslash and the newline are escaped.
EscapedChar(c) ==
    CASE c = "\"" -> "\\\""
      [] c = "\\" -> "\\\\"
      [] c = "\n" -> "\\n"
      [] OTHER -> c

\* json.dumps of a text of ASCII characters, without the quotes around it
\* (by halves, as the text is long).
RECURSIVE Escaped(_)
Escaped(text) ==
    IF Len(text) = 0 THEN ""
    ELSE IF Len(text) = 1 THEN EscapedChar(text)
    ELSE LET half == Len(text) \div 2
         IN  Escaped(SubSeq(text, 1, half))
                 \o Escaped(SubSeq(text, half + 1, Len(text)))

\* f"data: {json.dumps({'content': chunk})}\n\n"
ContentEvent(chunk) == "data: {\"content\": \"" \o Escaped(chunk) \o "\"}\n\n"

\* f"data: {json.dumps({'content': '', 'done': True})}\n\n"
DoneEvent == "data: {\"content\": \"\", \"done\": true}\n\n"

\* The chunk generate_streaming_response yields when it catches an exception.
Apology(e) ==
    "I apologize, but I encountered an error: " \o e \o ". Please try again."

\* A slip: the response keeps the last chunk only.
AccumulatedLast(ai_response, chunk) == chunk

\* ai_response += chunk
Accumulated(ai_response, chunk) == ai_response \o chunk

\* len(messages) == 1
FirstMessage(messages) == Len(messages) = 1

\* user_message[:50] + "..." if len(user_message) > 50 else user_message
TitleFrom(user_message) ==
    IF Len(user_message) > TitleLength
    THEN SubSeq(user_message, 1, TitleLength) \o "..."
    ELSE user_message

\* A stream that has not run yet.  completion is what the model will stream
\* for it; chunks, deltas and effects are a record of what happened: the
\* chunks the service yielded, the deltas it received, and what the stream
\* did to the database and to its reader, in order.
NewStream(user_message) ==
    [pc |-> "start", user_message |-> user_message, messages |-> <<>>,
     completion |-> <<>>, ai_response |-> "", events |-> <<>>,
     chunks |-> <<>>, deltas |-> 0, effects |-> <<>>]

InitChat ==
    /\ Fresh
    /\ query = "best action thriller"
    /\ media_type = "all"
    /\ page = 1
    /\ limit = 20
    /\ user_filters = NoValue
    /\ clock_year = 2026
    /\ streams \in [Streams -> {NewStream(m) : m \in UserMessages}]
    /\ \E earlier \in {<<>>, EarlierMessages} :
          db = [messages |-> earlier, title |-> NewChat]

\* What a step of a stream leaves alone.
RecommendationsIdle ==
    UNCHANGED <<pc, request, clock_year, suspended, parsed_query, strategy,
                filters, gateway, results, recommendations, response>>

\* db.add(user_msg); db.commit()
SaveUserMessage(s) ==
    /\ streams[s].pc = "start"
    /\ db' = [db EXCEPT !.messages =
                 Append(@, Message("user", streams[s].user_message, s))]
    /\ streams' = [streams EXCEPT ![s].pc = "saved",
                                  ![s].effects = Append(@, "user_committed")]
    /\ RecommendationsIdle

\* messages = db.query(Message).filter(...).order_by(...).all(), and the
\* iteration of generate_streaming_response begins.
LoadHistory(s) ==
    /\ streams[s].pc = "saved"
    /\ \E completion \in Completions :
          streams' = [streams EXCEPT ![s].pc = "generating",
                                     ![s].messages = db.messages,
                                     ![s].completion = completion]
    /\ RecommendationsIdle
    /\ UNCHANGED db

\* The stream as it is after a chunk has been yielded and sent on.
Yielded(stream, chunk) ==
    [stream EXCEPT !.ai_response = Accumulated(@, chunk),
                   !.events = Append(@, ContentEvent(chunk)),
                   !.chunks = Append(@, chunk),
                   !.effects = Append(@, "content")]

\* A delta with content: the chunk is yielded, added to the response and
\* sent as an event.
DeltaWithContent(s) ==
    /\ streams[s].pc = "generating"
    /\ streams[s].deltas < Len(streams[s].completion)
    /\ LET chunk == streams[s].completion[streams[s].deltas + 1]
       IN  /\ chunk # None
           /\ streams' = [streams EXCEPT
                             ![s] = [Yielded(@, chunk) EXCEPT !.deltas = @ + 1]]
    /\ RecommendationsIdle
    /\ UNCHANGED db

\* A delta whose content is None is passed over.
DeltaWithoutContent(s) ==
    /\ streams[s].pc = "generating"
    /\ streams[s].deltas < Len(streams[s].completion)
    /\ streams[s].completion[streams[s].deltas + 1] = None
    /\ streams' = [streams EXCEPT ![s].deltas = @ + 1]
    /\ RecommendationsIdle
    /\ UNCHANGED db

\* An exception inside the try block (the lookup of recommendations, the
\* completion request or its stream): the apology is yielded as a chunk and
\* the generator ends.
CompletionFails(s) ==
    /\ streams[s].pc = "generating"
    /\ \E e \in Failures :
          streams' = [streams EXCEPT
                         ![s] = [Yielded(@, Apology(e)) EXCEPT !.pc = "generated"]]
    /\ RecommendationsIdle
    /\ UNCHANGED db

\* The completion stream is exhausted.
CompletionEnds(s) ==
    /\ streams[s].pc = "generating"
    /\ streams[s].deltas = Len(streams[s].completion)
    /\ streams' = [streams EXCEPT ![s].pc = "generated"]
    /\ RecommendationsIdle
    /\ UNCHANGED db

\* db.add(ai_msg); the title of a first message; db.commit()
SaveAIResponse(s) ==
    /\ streams[s].pc = "generated"
    /\ db' = [messages |-> Append(db.messages,
                                  Message("assistant", streams[s].ai_response, s)),
              title |-> IF FirstMessage(streams[s].messages)
                        THEN TitleFrom(streams[s].user_message)
                        ELSE db.title]
    /\ streams' = [streams EXCEPT ![s].pc = "committed",
                                  ![s].effects = Append(@, "assistant_committed")]
    /\ RecommendationsIdle

\* The final event.
EmitDone(s) ==
    /\ streams[s].pc = "committed"
    /\ streams' = [streams EXCEPT ![s].pc = "end",
                                  ![s].events = Append(@, DoneEvent),
                                  ![s].effects = Append(@, "done")]
    /\ RecommendationsIdle
    /\ UNCHANGED db

NextChat ==
    \E s \in Streams :
        \/ SaveUserMessage(s)
        \/ LoadHistory(s)
        \/ DeltaWithContent(s)
        \/ DeltaWithoutContent(s)
        \/ CompletionFails(s)
        \/ CompletionEnds(s)
        \/ SaveAIResponse(s)
        \/ EmitDone(s)

SpecChat == InitChat /\ [][NextChat]_vars

-----------------------------------------------------------------------------
(* Properties of the chat stream (SpecChat) *)

RECURSIVE Concatenated(_)
Concatenated(texts) ==
    IF texts = <<>> THEN "" ELSE Head(texts) \o Concatenated(Tail(texts))

\* The rows a stream has committed, by role.
RowsOf(s, role) ==
    {i \in 1..Len(db.messages) :
        db.messages[i].stream = s /\ db.messages[i].role = role}

\* Where an effect stands in the record of a stream.
EffectAt(s, effect) ==
    {i \in 1..Len(streams[s].effects) : streams[s].effects[i] = effect}

Before(A, B) == \A i \in A, j \in B : i < j

\* The user message of s is committed before its first content event.
UserMessageFirst(s) ==
    /\ Before(EffectAt(s, "user_committed"), EffectAt(s, "content"))
    /\ streams[s].events # <<>> =>
          /\ Cardinality(EffectAt(s, "user_committed")) = 1
          /\ \E i \in RowsOf(s, "user") :
                db.messages[i].content = streams[s].user_message

\* One assistant message, after the last content event and before the done
\* event, holding the chunks in the order they were sent.
OneAssistantMessage(s) ==
    /\ Cardinality(RowsOf(s, "assistant")) <= 1
    /\ Cardinality(RowsOf(s, "assistant")) =
          Cardinality(EffectAt(s, "assistant_committed"))
    /\ streams[s].pc = "end" => Cardinality(RowsOf(s, "assistant")) = 1
    /\ Before(EffectAt(s, "content"), EffectAt(s, "assistant_committed"))
    /\ Before(EffectAt(s, "assistant_committed"), EffectAt(s, "done"))
    /\ EffectAt(s, "done") # {} => EffectAt(s, "assistant_committed") # {}
    /\ \A i \in RowsOf(s, "assistant") :
          /\ db.messages[i].content = Concatenated(streams[s].chunks)
          /\ \A k \in 1..Len(streams[s].chunks) :
                streams[s].events[k] = ContentEvent(streams[s].chunks[k])

\* The done event is sent once, and nothing after it.
DoneOnceAndLast(s) ==
    LET events == streams[s].events
        sent == {k \in 1..Len(events) : events[k] = DoneEvent}
    IN  /\ Cardinality(sent) <= 1
        /\ sent \subseteq {Len(events)}
        /\ streams[s].pc = "end" <=> sent # {}
        /\ Len(events) = Len(streams[s].chunks) + Cardinality(sent)

\* The title is that of the session as it was, or comes from the user
\* message that is the first message of the session.
TitleOfFirstMessage ==
    db.title # NewChat =>
        \E s \in Streams :
            /\ db.title = TitleFrom(streams[s].user_message)
            /\ RowsOf(s, "assistant") # {}
            /\ db.messages[1] = Message("user", streams[s].user_message, s)

\* C30: in every chat stream the user message is committed before the first
\* content event; one assistant message is committed, after the last content
\* event and before the done event, and it holds the chunks sent, in order;
\* the done event is sent once and is the last; the title of the session is
\* set from the user message only when it is the first message of the
\* session.
C30_ChatStreamOrder ==
    /\ DOMAIN streams = Streams
    /\ \A s \in Streams :
          /\ UserMessageFirst(s)
          /\ OneAssistantMessage(s)
          /\ DoneOnceAndLast(s)
    /\ TitleOfFirstMessage

\* C30 witness: a stream of two chunks has ended and has given the session,
\* which had no message before, the title cut from its long user message,
\* while another stream on the session has ended without retitling it.
C30_Witness ==
    /\ DOMAIN streams = Streams
    /\ \E s, other \in Streams :
          /\ s # other
          /\ streams[s].pc = "end"
          /\ streams[other].pc = "end"
          /\ Len(streams[s].chunks) = 2
          /\ streams[s].chunks[1] # streams[s].chunks[2]
          /\ Len(streams[s].user_message) > TitleLength
          /\ db.title = TitleFrom(streams[s].user_message)
          /\ db.title # TitleFrom(streams[other].user_message)
          /\ Len(db.messages) = 4

=============================================================================
